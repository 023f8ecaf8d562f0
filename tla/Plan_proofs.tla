---------------------------- MODULE Plan_proofs -----------------------------
(***************************************************************************)
(* Theorems about the strategic plan and the administrator's page for it,  *)
(* for any codes, letters, names, years and number of writes.              *)
(*                                                                         *)
(* The plan (SpStructure).  The argument has three layers.  Every request  *)
(* but the replacement of subtasks is one Save of well formed rows         *)
(* (NextSaves), so that what a Save keeps of one node, HistoryInv, is kept *)
(* by all.  A request of an administrator with discipline is a             *)
(* CarefulSave, of live nodes or of new ones, which also keeps each        *)
(* lineage telling its node's past (LineageOK, with the lemmas about edits *)
(* of ItemVersions_proofs) and the live plan a tree (TreeInv).  When such  *)
(* requests work forward, a year before the one worked on shows what it    *)
(* showed and the others show the live plan, so a plan that is a tree in   *)
(* every year stays one.                                                   *)
(*                                                                         *)
(* The page is a client of the plan: whatever it asks for, the services do *)
(* something SpStructure allows, so the invariant of the plan's rows holds *)
(* under the page too (PlanInv). PageInv types what the page shows and the *)
(* queue of requests. MeantInv is about meaning: while the administrator   *)
(* has not been hasty, every request in the queue still means, for the     *)
(* rows as they will be when it is served, what was seen when it was sent; *)
(* the order of the queue matters, because what is served first changes    *)
(* the rows under the others (After). From it follows what the tree on the *)
(* page shows, what an edit leaves alone, and that the page asks for no    *)
(* node under an abolished parent (TreeKept). The funds are apart: their   *)
(* list is sorted by a strict total order, so places and orders determine  *)
(* each other, and what a move was sent for is still stored (FundsInv).    *)
(***************************************************************************)
EXTENDS PlanScreens, MCSpStructure, ItemVersions_proofs

USE YearsAssumption, NullAssumption

-----------------------------------------------------------------------------
(* Types.                                                                  *)

LEMMA StoredRow ==
  ASSUME TypeOK, NEW n \in Stored
  PROVE  n \in Nodes /\ row[n] \in Row
BY DEF TypeOK, Stored

\* The KPIs of one task have different letters, so there are no more than letters.
LEMMA FewSiblings ==
  ASSUME NEW k \in Kpis, NEW S \in SUBSET Kpis, \A j \in S : Home[j] = Home[k]
  PROVE  IsFiniteSet(S) /\ Cardinality(S) \in Nat /\ Cardinality(S) <= MaxLetter
<1> DEFINE letter == [j \in S |-> Letter[j]]
<1>1. letter \in Injection(S, Letters)
  BY TreeAssumption DEF Injection, IsInjective
<1>2. IsFiniteSet(Letters) /\ Cardinality(Letters) = MaxLetter
  BY FS_Interval, TreeAssumption DEF Letters
<1>3. IsFiniteSet(S) /\ Cardinality(S) <= MaxLetter
  BY <1>1, <1>2, FS_Injection
<1> QED
  BY <1>3, FS_CardinalityType

\* A rank among live siblings that are not all the KPIs of the task is a letter.
LEMMA RankIsLetter ==
  ASSUME NEW k \in Kpis, NEW j \in LiveSiblings(k)
  PROVE  CompactSuffix(j, LiveSiblings(k)) \in Letters
<1> DEFINE live == LiveSiblings(k)
           earlier == {i \in live : SortsBefore(i, j)}
<1>1. live \cup {k} \in SUBSET Kpis /\ \A i \in live \cup {k} : Home[i] = Home[k]
  BY DEF LiveSiblings
<1>2. IsFiniteSet(live) /\ Cardinality(live) \in Nat
      /\ Cardinality(live \cup {k}) <= MaxLetter
  BY <1>1, FewSiblings
<1>3. k \notin live
  BY DEF LiveSiblings
<1>4. Cardinality(live \cup {k}) = Cardinality(live) + 1
  BY <1>2, <1>3, FS_AddElement
<1>5. IsFiniteSet(earlier) /\ Cardinality(earlier) <= Cardinality(live)
  BY <1>2, FS_Subset
<1>6. Cardinality(earlier) \in Nat
  BY <1>5, FS_CardinalityType
<1> HIDE DEF live, earlier
<1>7. 1 + Cardinality(earlier) \in Letters
  BY <1>2, <1>4, <1>5, <1>6, TreeAssumption DEF Letters
<1> QED
  BY <1>7 DEF CompactSuffix, earlier, live

\* What a request may save: rows, of existing nodes unless it creates them; an
\* abolished row when it abolishes; and a letter for a KPI.
MaySave(new, type) ==
  /\ DOMAIN new \subseteq Nodes
  /\ \A n \in DOMAIN new :
       /\ new[n] \in Row
       /\ type[n] \in ChangeTypes
       /\ type[n] # "create" => n \in Stored
       /\ type[n] = "abolish" => new[n].abolished # NULL
       /\ n \in Kpis => new[n].suffix \in Letters

\* The live KPIs, and the rows a rollback may bring back, carry letters.
KpisHaveLetters ==
  /\ \A k \in Stored \cap Kpis : row[k].suffix \in Letters
  /\ \A e \in log : e.node \in Kpis => e.before.suffix \in Letters

LEMMA SaveType ==
  ASSUME TypeOK, NEW new, NEW type, MaySave(new, type), NEW y \in Years, Save(new, type, y)
  PROVE  TypeOK'
<1>1. row' \in [Nodes -> Row \cup {NULL}]
  BY DEF TypeOK, Save, MaySave
<1>2. ASSUME NEW n \in DOMAIN new
      PROVE  WriteVersion(versions[n], writes + 1, y, type[n],
                          IF type[n] = "abolish" THEN row[n] ELSE new[n], row[n])
               \in SUBSET Version(Row)
  <2>1. n \in Nodes /\ versions[n] \in SUBSET Version(Row) /\ writes + 1 \in Nat
    BY <1>2 DEF TypeOK, MaySave
  <2>2. type[n] \in ChangeTypes /\ (type[n] # "create" => row[n] \in Row) /\ new[n] \in Row
    BY <1>2, StoredRow DEF MaySave
  <2> QED
    BY <2>1, <2>2, WriteVersionType
<1>3. versions' \in [Nodes -> SUBSET Version(Row)]
  BY <1>2 DEF TypeOK, Save, MaySave
<1>4. log' \subseteq [node: Nodes, year: Years, before: Row]
  <2>1. \A n \in DOMAIN new : type[n] # "create" => n \in Nodes /\ row[n] \in Row
    BY StoredRow DEF MaySave
  <2> QED
    BY <2>1 DEF TypeOK, Save
<1>5. writes' \in Nat
  BY DEF TypeOK, Save
<1> QED
  BY <1>1, <1>3, <1>4, <1>5 DEF TypeOK

LEMMA SaveLetters ==
  ASSUME TypeOK, KpisHaveLetters, NEW new, NEW type, MaySave(new, type), NEW y, Save(new, type, y)
  PROVE  KpisHaveLetters'
<1>1. ASSUME NEW k \in Kpis, row'[k] # NULL PROVE row'[k].suffix \in Letters
  BY <1>1 DEF KpisHaveLetters, MaySave, Save, Stored, Nodes
<1>2. ASSUME NEW e \in log', e.node \in Kpis PROVE e.before.suffix \in Letters
  BY <1>2 DEF KpisHaveLetters, MaySave, Save
<1> QED
  BY <1>1, <1>2 DEF KpisHaveLetters, Stored

-----------------------------------------------------------------------------
(* Every request saves what it may.                                        *)

LEMMA AboveType ==
  ASSUME TypeOK, NEW n \in Nodes, NEW p, n \notin Goals => p \in ParentKind(n) \cap Stored
  PROVE  Above(n, p) \in Seq(Nodes)
<1>1. CASE n \in Goals
  BY <1>1 DEF Above
<1>2. CASE n \notin Goals
  <2>1. p \in Nodes /\ row[p].above \in Seq(Nodes)
    BY <1>2, StoredRow DEF Row
  <2>2. <<p>> \in Seq(Nodes)
    BY <2>1
  <2>3. <<p>> \o row[p].above \in Seq(Nodes)
    BY <2>1, <2>2, ConcatProperties
  <2> QED
    BY <1>2, <2>2, <2>3 DEF Above
<1> QED
  BY <1>1, <1>2

\* What a creation and an update save.
Creates(n, name, p, y, new) ==
  /\ new \in [{n} -> Row]
  /\ new[n].name = name /\ new[n].above = Above(n, p) /\ new[n].from = y
  /\ new[n].abolished = NULL /\ (n \in Kpis => new[n].suffix = Letter[n])
  /\ MaySave(new, [m \in {n} |-> "create"])
  /\ Save(new, [m \in {n} |-> "create"], y)

Updates(n, name, s, y, new) ==
  /\ new \in [{n} -> Row]
  /\ new[n] = [row[n] EXCEPT !.name = name, !.suffix = s]
  /\ MaySave(new, [m \in {n} |-> "update"])
  /\ Save(new, [m \in {n} |-> "update"], y)

LEMMA CreateSaves ==
  ASSUME TypeOK, NEW n \in Nodes, NEW name \in Names, NEW p \in Nodes, NEW y \in Years,
         CreateNode(n, name, p, y)
  PROVE  \E new : Creates(n, name, p, y, new)
<1> DEFINE siblings == {j \in Stored \cap Kpis : Home[j] = Home[n]}
           suffix == IF n \in Kpis THEN Letter[n] ELSE NULL
           order == IF n \in Stored THEN row[n].order
                    ELSE IF n \in Kpis THEN Cardinality(siblings) ELSE 0
           saved == [name |-> name, above |-> Above(n, p), suffix |-> suffix, order |-> order,
                     from |-> y, abolished |-> NULL]
           new == [m \in {n} |-> saved]
<1>1. order \in Nat
  <2>1. n \in Stored => row[n].order \in Nat
    BY StoredRow DEF Row
  <2>2. n \in Kpis => Cardinality(siblings) \in Nat
    BY FewSiblings
  <2> QED
    BY <2>1, <2>2
<1>2. suffix \in Letters \cup {NULL}
  BY TreeAssumption
<1>3. Above(n, p) \in Seq(Nodes)
  BY AboveType DEF CreateNode
<1>4. saved \in Row
  <2> HIDE DEF order, suffix
  <2> QED
    BY <1>1, <1>2, <1>3 DEF Row, YearOrNull
<1>5. Save(new, [m \in {n} |-> "create"], y)
  BY DEF CreateNode, SaveOne
<1>6. /\ saved.name = name /\ saved.above = Above(n, p) /\ saved.from = y
      /\ saved.abolished = NULL /\ (n \in Kpis => saved.suffix = Letter[n])
  OBVIOUS
<1> HIDE DEF saved
<1>7. new \in [{n} -> Row] /\ new[n] = saved /\ DOMAIN new = {n}
  BY <1>4
<1>8. MaySave(new, [m \in {n} |-> "create"])
  BY <1>4, <1>6, <1>7, TreeAssumption DEF MaySave, ChangeTypes
<1> HIDE DEF new
<1> QED
  BY <1>5, <1>6, <1>7, <1>8 DEF Creates

LEMMA UpdateSaves ==
  ASSUME TypeOK, KpisHaveLetters, NEW n \in Nodes, NEW name \in Names,
         NEW s \in Letters \cup {NULL}, NEW y \in Years, UpdateNode(n, name, s, y)
  PROVE  \E new : Updates(n, name, s, y, new)
<1> DEFINE saved == [row[n] EXCEPT !.name = name, !.suffix = s]
           new == [m \in {n} |-> saved]
<1>1. row[n] \in Row /\ n \in Stored
  BY StoredRow DEF UpdateNode
<1>2. saved \in Row /\ saved.suffix = s
  BY <1>1 DEF Row
<1>3. n \in Kpis => s \in Letters
  BY <1>1 DEF UpdateNode, KpisHaveLetters
<1>4. Save(new, [m \in {n} |-> "update"], y)
  BY DEF UpdateNode, SaveOne
<1>5. saved = [row[n] EXCEPT !.name = name, !.suffix = s]
  OBVIOUS
<1> HIDE DEF saved
<1>6. new \in [{n} -> Row] /\ new[n] = saved /\ DOMAIN new = {n}
  BY <1>2
<1>7. MaySave(new, [m \in {n} |-> "update"])
  BY <1>1, <1>2, <1>3, <1>6 DEF MaySave, ChangeTypes
<1> HIDE DEF new
<1> QED
  BY <1>4, <1>5, <1>6, <1>7 DEF Updates

LEMMA AbolishedRow ==
  ASSUME NEW r \in Row, NEW y \in Years
  PROVE  LET new == [r EXCEPT !.abolished = y]
         IN /\ new \in Row /\ new.abolished = y /\ y # NULL
            /\ new.name = r.name /\ new.above = r.above /\ new.suffix = r.suffix
            /\ new.from = r.from
BY DEF Row, YearOrNull, Years

LEMMA AbolitionSaves ==
  ASSUME TypeOK, KpisHaveLetters, NEW nodes \in SUBSET Stored, NEW y \in Years
  PROVE  MaySave([n \in nodes |-> [row[n] EXCEPT !.abolished = y]], [n \in nodes |-> "abolish"])
<1>1. ASSUME NEW n \in nodes
      PROVE  /\ n \in Nodes /\ n \in Stored
             /\ [row[n] EXCEPT !.abolished = y] \in Row
             /\ [row[n] EXCEPT !.abolished = y].abolished # NULL
             /\ n \in Kpis => [row[n] EXCEPT !.abolished = y].suffix \in Letters
  <2>1. n \in Stored /\ n \in Nodes /\ row[n] \in Row
    BY StoredRow
  <2> QED
    BY <2>1, AbolishedRow DEF KpisHaveLetters
<1> QED
  BY <1>1 DEF MaySave, ChangeTypes

LEMMA CascadeIsStored ==
  ASSUME NEW tops \in SUBSET Stored
  PROVE  Cascade(tops) \in SUBSET Stored
BY DEF Cascade, LiveBelow, Live

\* The siblings that move up when k goes, and the request that moves them.
Moved(k) == {j \in LiveSiblings(k) : CompactSuffix(j, LiveSiblings(k)) # row[j].suffix}

ClosedUp(k, y) ==
  [n \in {k} \cup Moved(k) |->
     IF n = k THEN [row[k] EXCEPT !.abolished = y]
              ELSE [row[n] EXCEPT !.suffix = CompactSuffix(n, LiveSiblings(k))]]

ClosingTypes(k) == [n \in {k} \cup Moved(k) |-> IF n = k THEN "abolish" ELSE "update"]

LEMMA AbolishKpiSaves ==
  ASSUME TypeOK, KpisHaveLetters, NEW k, NEW y \in Years, AbolishKpi(k, y)
  PROVE  /\ k \in Stored \cap Kpis
         /\ MaySave(ClosedUp(k, y), ClosingTypes(k))
         /\ Save(ClosedUp(k, y), ClosingTypes(k), y)
<1>1. k \in Stored \cap Kpis /\ k \notin Moved(k) /\ Moved(k) \subseteq LiveSiblings(k)
  BY DEF AbolishKpi, Moved, LiveSiblings
<1>2. [row[k] EXCEPT !.abolished = y] \in Row /\ [row[k] EXCEPT !.abolished = y].abolished # NULL
      /\ [row[k] EXCEPT !.abolished = y].suffix \in Letters
  <2>1. row[k] \in Row
    BY <1>1, StoredRow
  <2> QED
    BY <1>1, <2>1, AbolishedRow DEF KpisHaveLetters
<1>3. ASSUME NEW j \in Moved(k)
      PROVE  /\ j \in Stored
             /\ [row[j] EXCEPT !.suffix = CompactSuffix(j, LiveSiblings(k))] \in Row
             /\ [row[j] EXCEPT !.suffix = CompactSuffix(j, LiveSiblings(k))].suffix \in Letters
  <2>1. j \in LiveSiblings(k) /\ j \in Stored
    BY <1>1 DEF LiveSiblings, Live
  <2>2. row[j] \in Row
    BY <2>1, StoredRow
  <2>3. CompactSuffix(j, LiveSiblings(k)) \in Letters
    BY <1>1, <2>1, RankIsLetter
  <2> QED
    BY <2>1, <2>2, <2>3 DEF Row
<1>4. DOMAIN ClosedUp(k, y) = {k} \cup Moved(k)
  BY DEF ClosedUp
<1>5. \A n \in {k} \cup Moved(k) :
        /\ n \in Nodes /\ n \in Stored
        /\ ClosedUp(k, y)[n] \in Row
        /\ ClosedUp(k, y)[n].suffix \in Letters
        /\ n = k => ClosedUp(k, y)[n].abolished # NULL
  BY <1>1, <1>2, <1>3 DEF ClosedUp, Stored
<1>6. \A n \in {k} \cup Moved(k) :
        ClosingTypes(k)[n] \in {"abolish", "update"} /\ (ClosingTypes(k)[n] = "abolish" => n = k)
  BY DEF ClosingTypes
<1>7. MaySave(ClosedUp(k, y), ClosingTypes(k))
  BY <1>4, <1>5, <1>6 DEF MaySave, ChangeTypes
<1>8. Save(ClosedUp(k, y), ClosingTypes(k), y)
  BY DEF AbolishKpi, ClosedUp, ClosingTypes, Moved
<1> QED
  BY <1>1, <1>7, <1>8

LEMMA RollbackSaves ==
  ASSUME TypeOK, KpisHaveLetters, NEW e \in log, Rollback(e)
  PROVE  /\ e.year \in Years
         /\ \E new, type : MaySave(new, type) /\ Save(new, type, e.year)
<1> DEFINE n == e.node
           saved == [row[n] EXCEPT !.name = e.before.name, !.suffix = e.before.suffix,
                                   !.above = IF n \in Strategies THEN e.before.above ELSE @,
                                   !.abolished = e.before.abolished]
           new == [m \in {n} |-> saved]
           type == [m \in {n} |-> "rollback"]
<1>1. e.before \in Row /\ e.year \in Years /\ n \in Stored /\ n \in Nodes
  BY DEF TypeOK, Rollback, Stored
<1>2. row[n] \in Row
  BY <1>1, StoredRow
<1>3. saved \in Row /\ saved.suffix = e.before.suffix
  BY <1>1, <1>2 DEF Row
<1>4. Save(new, type, e.year)
  BY DEF Rollback, SaveOne
<1>5. n \in Kpis => e.before.suffix \in Letters
  BY DEF KpisHaveLetters
<1> HIDE DEF saved
<1>6. new[n] = saved /\ DOMAIN new = {n} /\ type[n] = "rollback"
  OBVIOUS
<1>7. MaySave(new, type)
  BY <1>1, <1>3, <1>5, <1>6 DEF MaySave, ChangeTypes
<1> HIDE DEF new, type
<1> QED
  BY <1>1, <1>4, <1>7

\* Whatever the step, it saves well formed rows for some year, or replaces the
\* subtasks of a task.
LEMMA NextSaves ==
  ASSUME TypeOK, KpisHaveLetters, Next
  PROVE  \/ \E new, type, y : y \in Years /\ MaySave(new, type) /\ Save(new, type, y)
         \/ \E t \in Tasks, given \in SUBSET Subtasks, name \in Names : ReplaceSubtasks(t, given, name)
<1>1. ASSUME NEW y \in Years, Create(y)
      PROVE  \E new, type : MaySave(new, type) /\ Save(new, type, y)
  BY <1>1, CreateSaves DEF Create, Creates
<1>2. ASSUME NEW y \in Years, Update(y)
      PROVE  \E new, type : MaySave(new, type) /\ Save(new, type, y)
  BY <1>2, UpdateSaves DEF Update, Updates
<1>3. ASSUME NEW y \in Years, NEW nodes \in SUBSET Stored, AbolishAll(nodes, y)
      PROVE  \E new, type : MaySave(new, type) /\ Save(new, type, y)
  BY <1>3, AbolitionSaves DEF AbolishAll
<1>4. ASSUME NEW y \in Years, Abolish(y)
      PROVE  \E new, type : MaySave(new, type) /\ Save(new, type, y)
  <2>1. ASSUME NEW n \in Nodes, AbolishNode(n, y)
        PROVE  \E new, type : MaySave(new, type) /\ Save(new, type, y)
    BY <1>3, <2>1, CascadeIsStored DEF AbolishNode
  <2>2. ASSUME NEW n \in Nodes, AbolishKpi(n, y)
        PROVE  \E new, type : MaySave(new, type) /\ Save(new, type, y)
    BY <2>2, AbolishKpiSaves
  <2> QED
    BY <1>4, <2>1, <2>2 DEF Abolish
<1>5. ASSUME NEW y \in Years, Revise(y)
      PROVE  \E new, type : MaySave(new, type) /\ Save(new, type, y)
  <2>1. Live \cap Goals \in SUBSET Stored /\ Live \cap Kpis \in SUBSET Stored
    BY DEF Live
  <2> QED
    BY <1>3, <1>5, <2>1, CascadeIsStored DEF Revise, ReviseStructure, ReviseKpis
<1> QED
  BY <1>1, <1>2, <1>4, <1>5, RollbackSaves DEF Next

-----------------------------------------------------------------------------
(* The version rows and the live rows agree.                               *)

OneOpen == \A n \in Nodes : \A v, w \in OpenRows(versions[n]) : v = w

\* The part of the invariant that speaks of one node.
NodeAgrees(n) ==
  /\ \A v, w \in OpenRows(versions[n]) : v = w
  /\ n \notin Subtasks =>
       /\ \A v \in OpenRows(versions[n]) : row[n] # NULL /\ View(v.payload) = View(row[n])
       /\ row[n] # NULL /\ row[n].abolished = NULL =>
            OpenRows(versions[n]) # {} \/ (versions[n] = {} /\ row[n].from = MinYear)

LEMMA AgreementIsPointwise ==
  /\ OneOpen /\ RowsAgree <=> \A n \in Nodes : NodeAgrees(n)
  /\ OneOpen' /\ RowsAgree' <=> \A n \in Nodes : NodeAgrees(n)'
<1>1. OneOpen /\ RowsAgree <=> \A n \in Nodes : NodeAgrees(n)
  BY DEF OneOpen, RowsAgree, OpenMatchesRow, LiveIsBacked, NodeAgrees, Live, Stored
<1>2. OneOpen' /\ RowsAgree' <=> \A n \in Nodes : NodeAgrees(n)'
  BY DEF OneOpen, RowsAgree, OpenMatchesRow, LiveIsBacked, NodeAgrees, Live, Stored
<1> QED
  BY <1>1, <1>2

\* A node a request saves: its open row afterwards is the inserted one, and it
\* carries what the saved row says; a request that inserts none abolishes.
LEMMA SavedNodeAgrees ==
  ASSUME TypeOK, OneOpen, NEW n \in Nodes, NEW id, NEW y \in Years, NEW type, NEW new \in Row,
         row'[n] = new,
         versions'[n] = WriteVersion(versions[n], id, y, type,
                                     IF type = "abolish" THEN row[n] ELSE new, row[n]),
         type = "abolish" => new.abolished # NULL
  PROVE  NodeAgrees(n)'
<1> DEFINE payload == IF type = "abolish" THEN row[n] ELSE new
<1>1. OpenRows(versions'[n]) = OpenFrom(id, y, type, payload)
  <2>1. versions[n] \in SUBSET Version(Row) /\ \A v, w \in OpenRows(versions[n]) : v = w
    BY DEF TypeOK, OneOpen
  <2> HIDE DEF payload
  <2>2. OpenRows(WriteVersion(versions[n], id, y, type, payload, row[n]))
          = OpenFrom(id, y, type, payload)
    BY <2>1, WriteVersionOpen
  <2> QED
    BY <2>2 DEF payload
<1>2. row'[n] # NULL
  BY RowAssumption
<1>3. CASE type = "abolish"
  BY <1>1, <1>3 DEF OpenFrom, NodeAgrees
<1>4. CASE type # "abolish"
  <2> DEFINE inserted == [id |-> id, from |-> y, to |-> NULL, type |-> type, payload |-> new]
  <2>1. OpenRows(versions'[n]) = {inserted}
    BY <1>1, <1>4 DEF OpenFrom
  <2>2. inserted.payload = row'[n]
    OBVIOUS
  <2> HIDE DEF inserted
  <2> QED
    BY <1>2, <2>1, <2>2 DEF NodeAgrees
<1> QED
  BY <1>3, <1>4

LEMMA SaveAgrees ==
  ASSUME TypeOK, OneOpen, RowsAgree, NEW new, NEW type, MaySave(new, type), NEW y \in Years,
         Save(new, type, y)
  PROVE  OneOpen' /\ RowsAgree'
<1>1. ASSUME NEW n \in DOMAIN new
      PROVE  NodeAgrees(n)'
  <2>1. n \in Nodes /\ new[n] \in Row /\ (type[n] = "abolish" => new[n].abolished # NULL)
    BY <1>1 DEF MaySave
  <2>2. row'[n] = new[n]
    BY <1>1, <2>1 DEF Save
  <2>3. versions'[n] = WriteVersion(versions[n], writes + 1, y, type[n],
                                    IF type[n] = "abolish" THEN row[n] ELSE new[n], row[n])
    BY <1>1, <2>1 DEF Save
  <2> QED
    BY <2>1, <2>2, <2>3, SavedNodeAgrees
<1>2. ASSUME NEW n \in Nodes \ DOMAIN new
      PROVE  NodeAgrees(n)'
  <2>1. row'[n] = row[n] /\ versions'[n] = versions[n]
    BY <1>2 DEF Save
  <2> QED
    BY <2>1, AgreementIsPointwise DEF NodeAgrees
<1> QED
  BY <1>1, <1>2, AgreementIsPointwise

HistoryInv == TypeOK /\ KpisHaveLetters /\ OneOpen /\ RowsAgree

LEMMA SeededRow ==
  ASSUME NEW n \in Nodes, NEW name \in Names
  PROVE  /\ Seeded(n, name) \in Row
         /\ Seeded(n, name).abolished = NULL /\ Seeded(n, name).from = MinYear
         /\ Seeded(n, name).above = SeedAbove(n)
         /\ n \in Kpis => Seeded(n, name).suffix = Letter[n]
<1>1. SeedAbove(n) \in Seq(Nodes)
  <2>1. CASE n \in Goals
    BY <2>1 DEF SeedAbove
  <2>2. CASE n \notin Goals /\ n \in Strategies \cup Subtasks
    <3>1. Home[n] \in Nodes
      BY <2>2, TreeAssumption
    <3> QED
      BY <2>2, <3>1 DEF SeedAbove
  <2>3. CASE n \in Tasks
    <3>1. n \notin Goals \cup Strategies \cup Subtasks
      BY <2>3, KindsAssumption
    <3>2. Home[n] \in Nodes /\ Home[Home[n]] \in Nodes
      BY <2>3, TreeAssumption DEF Nodes
    <3>3. SeedAbove(n) = <<Home[n], Home[Home[n]]>>
      BY <2>3, <3>1 DEF SeedAbove
    <3>4. <<Home[n], Home[Home[n]]>> \in Seq(Nodes)
      BY <3>2
    <3> QED
      BY <3>3, <3>4
  <2>4. CASE n \in Kpis
    <3>1. n \notin Goals \cup Strategies \cup Subtasks \cup Tasks
      BY <2>4, KindsAssumption
    <3>2. Home[n] \in Nodes /\ Home[Home[n]] \in Nodes /\ Home[Home[Home[n]]] \in Nodes
      BY <2>4, TreeAssumption DEF Nodes
    <3>3. <<Home[n], Home[Home[n]], Home[Home[Home[n]]]>> \in Seq(Nodes)
      BY <3>2
    <3> QED
      BY <3>1, <3>3 DEF SeedAbove
  <2> QED
    BY <2>1, <2>2, <2>3, <2>4 DEF Nodes
<1>2. n \in Kpis => Letter[n] \in Letters /\ Letter[n] - 1 \in Nat
  BY TreeAssumption DEF Letters
<1> QED
  BY <1>1, <1>2 DEF Seeded, Row, Years, YearOrNull

LEMMA InitHistory == Init => HistoryInv
<1> SUFFICES ASSUME Init PROVE HistoryInv
  OBVIOUS
<1>1. PICK seeds \in SUBSET Nodes, name \in Names :
        row = [n \in Nodes |-> IF n \in seeds THEN Seeded(n, name) ELSE NULL]
  BY DEF Init
<1>2. \A n \in Nodes : row[n] # NULL => n \in seeds /\ row[n] = Seeded(n, name)
  BY <1>1
<1>3. TypeOK
  BY <1>1, SeededRow DEF Init, TypeOK
<1>4. KpisHaveLetters
  BY <1>2, SeededRow, TreeAssumption DEF Init, KpisHaveLetters, Stored
<1>5. \A n \in Nodes : versions[n] = {} /\ OpenRows(versions[n]) = {}
  BY DEF Init, OpenRows
<1>6. \A n \in Nodes : NodeAgrees(n)
  BY <1>2, <1>5, SeededRow DEF NodeAgrees
<1> QED
  BY <1>3, <1>4, <1>6, AgreementIsPointwise DEF HistoryInv

LEMMA ReplaceKeepsHistory ==
  ASSUME HistoryInv, NEW t \in Tasks, NEW given \in SUBSET Subtasks, NEW name \in Names,
         ReplaceSubtasks(t, given, name)
  PROVE  HistoryInv'
<1>1. \A n \in Nodes \ Subtasks : row'[n] = row[n]
  BY DEF ReplaceSubtasks
<1>2. \A n \in Nodes : row'[n] \in Row \cup {NULL}
  BY SeededRow DEF ReplaceSubtasks, HistoryInv, TypeOK
<1>3. TypeOK'
  BY <1>2 DEF ReplaceSubtasks, HistoryInv, TypeOK
<1>4. KpisHaveLetters'
  BY <1>1, KindsAssumption DEF ReplaceSubtasks, HistoryInv, KpisHaveLetters, Stored
<1>5. \A n \in Nodes : NodeAgrees(n)'
  <2>1. versions' = versions
    BY DEF ReplaceSubtasks
  <2>2. \A n \in Nodes : NodeAgrees(n)
    BY AgreementIsPointwise DEF HistoryInv
  <2> QED
    BY <1>1, <2>1, <2>2 DEF NodeAgrees
<1> QED
  BY <1>3, <1>4, <1>5, AgreementIsPointwise DEF HistoryInv

LEMMA NextHistory == HistoryInv /\ [Next]_vars => HistoryInv'
<1> SUFFICES ASSUME HistoryInv, [Next]_vars PROVE HistoryInv'
  OBVIOUS
<1>1. ASSUME NEW new, NEW type, NEW y \in Years, MaySave(new, type), Save(new, type, y)
      PROVE  HistoryInv'
  BY <1>1, SaveType, SaveLetters, SaveAgrees DEF HistoryInv
<1>2. CASE Next
  <2>1. TypeOK /\ KpisHaveLetters
    BY DEF HistoryInv
  <2> QED
    BY <1>1, <1>2, <2>1, NextSaves, ReplaceKeepsHistory
<1>3. CASE UNCHANGED vars
  BY <1>3 DEF vars, HistoryInv, TypeOK, KpisHaveLetters, OneOpen, RowsAgree, OpenMatchesRow,
              LiveIsBacked, Live, Stored
<1> QED
  BY <1>2, <1>3

\* However the tree is edited, rolled back and revised, the open version row of a
\* node says what its live row says, and a live node has one.
THEOREM RowsAlwaysAgree == Spec => [](TypeOK /\ RowsAgree)
<1>1. HistoryInv => TypeOK /\ RowsAgree
  BY DEF HistoryInv
<1> QED
  BY <1>1, InitHistory, NextHistory, PTL DEF Spec

LEMMA MCNextIsNext == [MCNext]_svars => [Next]_vars
<1>1. ASSUME NEW y \in Years, EditFor(y)
      PROVE  Next
  <2>1. CarefulCreate(y) => Create(y)
    BY DEF CarefulCreate, Create
  <2>2. Live \subseteq Nodes
    BY DEF Live, Stored
  <2>3. (CarefulUpdate(y) => Update(y)) /\ (CarefulAbolish(y) => Abolish(y))
    BY <2>2 DEF CarefulUpdate, Update, CarefulAbolish, Abolish
  <2> QED
    BY <1>1, <2>1, <2>3 DEF EditFor, Next
<1> QED
  BY <1>1 DEF MCNext, HistoryNext, CarefulNext, Next, svars

\* The property of the run, for any tree, letters, years and number of writes.
THEOREM HistoryIsSound == MCSpec => []HistorySound
<1>1. HistoryInv => HistorySound
  BY DEF HistoryInv, HistorySound
<1>2. MCInit => HistoryInv
  BY InitHistory DEF MCInit
<1>3. HistoryInv /\ [MCNext]_svars => HistoryInv'
  BY MCNextIsNext, NextHistory
<1> QED
  BY <1>1, <1>2, <1>3, PTL DEF MCSpec

-----------------------------------------------------------------------------
(* After an abolition the letters close up.                                *)

\* The order of the letters, with its two ties, is a strict total order on siblings.
LEMMA SiblingsAreOrdered ==
  ASSUME TypeOK, KpisHaveLetters, NEW k \in Kpis
  PROVE  /\ \A i \in LiveSiblings(k) : ~SortsBefore(i, i)
         /\ \A i, j \in LiveSiblings(k) : i # j => SortsBefore(i, j) \/ SortsBefore(j, i)
         /\ \A h, i, j \in LiveSiblings(k) :
              SortsBefore(h, i) /\ SortsBefore(i, j) => SortsBefore(h, j)
<1>1. \A i \in LiveSiblings(k) :
        /\ row[i].suffix \in Int /\ row[i].order \in Int /\ Letter[i] \in Int
  <2>1. \A i \in LiveSiblings(k) : i \in Stored \cap Kpis /\ row[i] \in Row
    BY StoredRow DEF LiveSiblings, Live
  <2>2. Letters \subseteq Int
    BY DEF Letters
  <2>3. \A r \in Row : r.order \in Int
    BY DEF Row
  <2> QED
    BY <2>1, <2>2, <2>3, TreeAssumption DEF KpisHaveLetters
<1>2. \A i, j \in LiveSiblings(k) : i # j => Letter[i] # Letter[j]
  BY TreeAssumption DEF LiveSiblings
<1> QED
  BY <1>1, <1>2 DEF SortsBefore

\* So the ranks of live siblings are the first letters, each once.
LEMMA RanksFill ==
  ASSUME TypeOK, KpisHaveLetters, NEW k \in Kpis
  PROVE  /\ {CompactSuffix(j, LiveSiblings(k)) : j \in LiveSiblings(k)}
              = 1..Cardinality(LiveSiblings(k))
         /\ \A i, j \in LiveSiblings(k) :
              CompactSuffix(i, LiveSiblings(k)) = CompactSuffix(j, LiveSiblings(k)) => i = j
<1> DEFINE live == LiveSiblings(k)
           m == Cardinality(live)
           Earlier(j) == {i \in live : SortsBefore(i, j)}
           rank == [j \in live |-> CompactSuffix(j, live)]
<1>1. IsFiniteSet(live) /\ m \in Nat
  BY FewSiblings DEF LiveSiblings
<1>2. ASSUME NEW j \in live
      PROVE  IsFiniteSet(Earlier(j)) /\ Cardinality(Earlier(j)) \in 0..(m - 1)
  <2>1. Earlier(j) \in SUBSET (live \ {j})
    BY SiblingsAreOrdered
  <2>2. IsFiniteSet(live \ {j}) /\ Cardinality(live \ {j}) = m - 1
    BY <1>1, FS_RemoveElement
  <2>3. IsFiniteSet(Earlier(j)) /\ Cardinality(Earlier(j)) <= m - 1
    BY <2>1, <2>2, FS_Subset
  <2> QED
    BY <1>1, <2>3, FS_CardinalityType
<1>3. ASSUME NEW i \in live, NEW j \in live, SortsBefore(i, j)
      PROVE  Cardinality(Earlier(i)) # Cardinality(Earlier(j))
  <2>1. Earlier(i) \in SUBSET Earlier(j) /\ i \in Earlier(j) /\ i \notin Earlier(i)
    BY <1>3, SiblingsAreOrdered
  <2> QED
    BY <1>2, <2>1, FS_Subset
<1>4. ASSUME NEW i \in live, NEW j \in live, i # j
      PROVE  rank[i] # rank[j]
  <2>1. Cardinality(Earlier(i)) # Cardinality(Earlier(j))
    BY <1>3, <1>4, SiblingsAreOrdered
  <2>2. rank[i] = 1 + Cardinality(Earlier(i)) /\ rank[j] = 1 + Cardinality(Earlier(j))
    BY DEF CompactSuffix
  <2> HIDE DEF rank, Earlier, m
  <2>3. Cardinality(Earlier(i)) \in Int /\ Cardinality(Earlier(j)) \in Int
    BY <1>2
  <2> QED
    BY <2>1, <2>2, <2>3
<1>5. ASSUME NEW j \in live PROVE rank[j] \in 1..m
  <2>1. rank[j] = 1 + Cardinality(Earlier(j))
    BY DEF CompactSuffix
  <2> HIDE DEF rank, Earlier, m
  <2>2. Cardinality(Earlier(j)) \in 0..(m - 1)
    BY <1>2
  <2> QED
    BY <1>1, <2>1, <2>2
<1>6. rank \in Injection(live, 1..m)
  BY <1>4, <1>5 DEF Injection, IsInjective
<1>7. IsFiniteSet(1..m) /\ Cardinality(1..m) = m
  BY <1>1, FS_Interval
<1>8. rank \in Surjection(live, 1..m)
  BY <1>6, <1>7, FS_Injection
<1>9. {rank[j] : j \in live} = 1..m
  BY <1>5, <1>8 DEF Surjection
<1> QED
  BY <1>4, <1>9

LEMMA AbolitionRenumbers ==
  ASSUME TypeOK, KpisHaveLetters, NEW k, NEW y \in Years, AbolishKpi(k, y)
  PROVE  \A j \in LiveSiblings(k) :
           row'[j] = [row[j] EXCEPT !.suffix = CompactSuffix(j, LiveSiblings(k))]
<1> SUFFICES ASSUME NEW j \in LiveSiblings(k)
             PROVE  row'[j] = [row[j] EXCEPT !.suffix = CompactSuffix(j, LiveSiblings(k))]
  OBVIOUS
<1>1. k \in Stored \cap Kpis /\ Save(ClosedUp(k, y), ClosingTypes(k), y)
  BY AbolishKpiSaves
<1>2. j \in Nodes /\ row[j] \in Row /\ j # k
  BY StoredRow DEF LiveSiblings, Live
<1>3. CASE j \in Moved(k)
  BY <1>1, <1>2, <1>3 DEF Save, ClosedUp
<1>4. CASE j \notin Moved(k)
  <2>1. row'[j] = row[j]
    BY <1>1, <1>2, <1>4 DEF Save, ClosedUp
  <2>2. row[j].suffix = CompactSuffix(j, LiveSiblings(k))
    BY <1>4 DEF Moved
  <2> QED
    BY <1>2, <2>1, <2>2 DEF Row
<1> QED
  BY <1>3, <1>4

ClosesUp ==
  \A k \in Kpis, y \in Years : AbolishKpi(k, y) =>
    {row'[j].suffix : j \in LiveSiblings(k)} = 1..Cardinality(LiveSiblings(k))

LEMMA AbolitionClosesRanks == HistoryInv => ClosesUp
<1> SUFFICES ASSUME TypeOK, KpisHaveLetters, NEW k \in Kpis, NEW y \in Years, AbolishKpi(k, y)
             PROVE  {row'[j].suffix : j \in LiveSiblings(k)} = 1..Cardinality(LiveSiblings(k))
  BY DEF HistoryInv, ClosesUp
<1>1. ASSUME NEW j \in LiveSiblings(k)
      PROVE  row'[j].suffix = CompactSuffix(j, LiveSiblings(k))
  <2>1. row[j] \in Row
    BY StoredRow DEF LiveSiblings, Live
  <2>2. row'[j] = [row[j] EXCEPT !.suffix = CompactSuffix(j, LiveSiblings(k))]
    BY AbolitionRenumbers
  <2> QED
    BY <2>1, <2>2 DEF Row
<1>2. {row'[j].suffix : j \in LiveSiblings(k)}
        = {CompactSuffix(j, LiveSiblings(k)) : j \in LiveSiblings(k)}
  BY <1>1
<1> QED
  BY <1>2, RanksFill

\* After a KPI is abolished its live siblings carry the first letters, each once,
\* for any number of siblings and also when two of them carried the same letter.
THEOREM LettersCloseUp == Spec => AbolitionClosesUp
<1>1. HistoryInv /\ [Next]_vars => [ClosesUp]_vars
  BY AbolitionClosesRanks
<1>2. [][ClosesUp]_vars => AbolitionClosesUp
  BY PTL DEF ClosesUp, AbolitionClosesUp
<1> QED
  BY <1>1, <1>2, InitHistory, NextHistory, PTL DEF Spec

-----------------------------------------------------------------------------
(* Careful administrators: what one request does to the rows of a node.    *)

\* A request of theirs edits live nodes, or creates nodes that are not live.
CarefulSave(new, type, y) ==
  /\ MaySave(new, type)
  /\ Save(new, type, y)
  /\ \A n \in DOMAIN new :
       /\ IsEdit(row[n], y, type[n], new[n], row[n])
       /\ IF type[n] = "create" THEN n \notin Live ELSE n \in Live

\* What their requests keep of each node: only a stored node has version rows, an
\* open one shows the live row, and a closed one ends before a year of the log.
LineageOK(n) ==
  /\ IsFiniteSet(versions[n])
  /\ row[n] = NULL => versions[n] = {}
  /\ row[n] # NULL => Sound(row[n], versions[n]) /\ Edited(row[n], versions[n])
  /\ \A v, w \in OpenRows(versions[n]) : v = w
  /\ \A v \in OpenRows(versions[n]) : row[n].abolished = NULL /\ View(v.payload) = View(row[n])
  /\ \A v \in versions[n] : ~IsOpen(v) => \E e \in log : v.to < e.year

CarefulInv == TypeOK /\ KpisHaveLetters /\ \A n \in Nodes : LineageOK(n)

LEMMA RowIsDated == Dated(Row)
BY DEF Dated, Row

LEMMA CreateIsCareful ==
  ASSUME TypeOK, NEW y \in Years, NEW n \in Nodes, NEW name \in Names, NEW p \in Nodes,
         CreateNode(n, name, p, y)
  PROVE  \E new : /\ Creates(n, name, p, y, new)
                  /\ CarefulSave(new, [m \in {n} |-> "create"], y)
<1>1. PICK new : Creates(n, name, p, y, new)
  BY CreateSaves
<1>2. n \notin Live
  BY DEF CreateNode, Live
<1>3. CarefulSave(new, [m \in {n} |-> "create"], y)
  BY <1>1, <1>2 DEF Creates, CarefulSave, IsEdit
<1> QED
  BY <1>1, <1>3

LEMMA UpdateIsCareful ==
  ASSUME TypeOK, KpisHaveLetters, NEW y \in Years, NEW n \in Live, NEW name \in Names,
         NEW s \in Letters \cup {NULL}, UpdateNode(n, name, s, y)
  PROVE  \E new : /\ Updates(n, name, s, y, new)
                  /\ CarefulSave(new, [m \in {n} |-> "update"], y)
<1>1. n \in Nodes /\ row[n] \in Row /\ row[n].abolished = NULL
  BY StoredRow DEF Live
<1>2. PICK new : Updates(n, name, s, y, new)
  BY <1>1, UpdateSaves
<1>3. new[n].abolished = NULL /\ new[n].from = row[n].from
  BY <1>1, <1>2 DEF Row, Updates
<1>4. CarefulSave(new, [m \in {n} |-> "update"], y)
  BY <1>1, <1>2, <1>3 DEF CarefulSave, IsEdit, Updates
<1> QED
  BY <1>2, <1>4

LEMMA AbolitionIsCareful ==
  ASSUME TypeOK, KpisHaveLetters, NEW nodes \in SUBSET Live, NEW y \in Years, AbolishAll(nodes, y)
  PROVE  CarefulSave([n \in nodes |-> [row[n] EXCEPT !.abolished = y]],
                     [n \in nodes |-> "abolish"], y)
<1> DEFINE new == [n \in nodes |-> [row[n] EXCEPT !.abolished = y]]
           type == [n \in nodes |-> "abolish"]
<1>1. nodes \in SUBSET Stored
  BY DEF Live
<1>2. MaySave(new, type) /\ Save(new, type, y)
  BY <1>1, AbolitionSaves DEF AbolishAll
<1>3. ASSUME NEW n \in nodes
      PROVE  IsEdit(row[n], y, type[n], new[n], row[n]) /\ type[n] = "abolish" /\ n \in Live
  <2>1. row[n] \in Row /\ row[n].abolished = NULL
    BY <1>1, StoredRow DEF Live
  <2>2. new[n].abolished = y /\ new[n].from = row[n].from /\ type[n] = "abolish"
    BY <2>1 DEF Row
  <2> HIDE DEF new, type
  <2> QED
    BY <2>1, <2>2 DEF IsEdit
<1>4. DOMAIN new = nodes
  OBVIOUS
<1> HIDE DEF new, type
<1>5. CarefulSave(new, type, y)
  BY <1>2, <1>3, <1>4 DEF CarefulSave
<1> QED
  BY <1>5 DEF new, type

LEMMA AbolishKpiIsCareful ==
  ASSUME TypeOK, KpisHaveLetters, NEW k \in Live, NEW y \in Years, AbolishKpi(k, y)
  PROVE  k \in Kpis /\ CarefulSave(ClosedUp(k, y), ClosingTypes(k), y)
<1>1. /\ k \in Kpis /\ MaySave(ClosedUp(k, y), ClosingTypes(k))
      /\ Save(ClosedUp(k, y), ClosingTypes(k), y)
  BY AbolishKpiSaves
<1>2. Moved(k) \subseteq Live /\ k \notin Moved(k) /\ DOMAIN ClosedUp(k, y) = {k} \cup Moved(k)
  BY DEF Moved, LiveSiblings, ClosedUp
<1>3. ASSUME NEW n \in {k} \cup Moved(k)
      PROVE  /\ IsEdit(row[n], y, ClosingTypes(k)[n], ClosedUp(k, y)[n], row[n])
             /\ ClosingTypes(k)[n] # "create" /\ n \in Live
  <2>1. n \in Live /\ row[n] \in Row /\ row[n].abolished = NULL
    BY <1>2, StoredRow DEF Live
  <2>2. CASE n = k
    <3>1. ClosedUp(k, y)[n].abolished = y /\ ClosedUp(k, y)[n].from = row[n].from
      BY <2>1, <2>2 DEF ClosedUp, Row
    <3>2. ClosingTypes(k)[n] = "abolish"
      BY <2>2 DEF ClosingTypes
    <3> QED
      BY <2>1, <3>1, <3>2 DEF IsEdit
  <2>3. CASE n # k
    <3>1. ClosedUp(k, y)[n].abolished = NULL /\ ClosedUp(k, y)[n].from = row[n].from
      BY <2>1, <2>3 DEF ClosedUp, Row
    <3>2. ClosingTypes(k)[n] = "update"
      BY <2>3 DEF ClosingTypes
    <3> QED
      BY <2>1, <3>1, <3>2 DEF IsEdit
  <2> QED
    BY <2>2, <2>3
<1> QED
  BY <1>1, <1>2, <1>3 DEF CarefulSave

\* Every request of theirs is a careful save.
LEMMA CascadeIsLive ==
  ASSUME NEW tops \in SUBSET Live
  PROVE  Cascade(tops) \in SUBSET Live
BY DEF Cascade, LiveBelow

LEMMA EditIsCareful ==
  ASSUME TypeOK, KpisHaveLetters, NEW y \in Years, EditFor(y)
  PROVE  \E new, type : CarefulSave(new, type, y)
<1>1. CASE CarefulCreate(y)
  BY <1>1, CreateIsCareful DEF CarefulCreate
<1>2. CASE CarefulUpdate(y)
  BY <1>2, UpdateIsCareful DEF CarefulUpdate
<1>3. ASSUME NEW nodes \in SUBSET Live, AbolishAll(nodes, y)
      PROVE  \E new, type : CarefulSave(new, type, y)
  BY <1>3, AbolitionIsCareful
<1>4. CASE CarefulAbolish(y)
  <2>1. ASSUME NEW n \in Live, AbolishNode(n, y)
        PROVE  \E new, type : CarefulSave(new, type, y)
    BY <1>3, <2>1, CascadeIsLive DEF AbolishNode
  <2>2. ASSUME NEW n \in Live, AbolishKpi(n, y)
        PROVE  \E new, type : CarefulSave(new, type, y)
    BY <2>2, AbolishKpiIsCareful
  <2> QED
    BY <1>4, <2>1, <2>2 DEF CarefulAbolish
<1>5. CASE Revise(y)
  BY <1>3, <1>5, CascadeIsLive DEF Revise, ReviseStructure, ReviseKpis
<1> QED
  BY <1>1, <1>2, <1>4, <1>5 DEF EditFor

\* A node a careful request saves.
LEMMA SavedLineage ==
  ASSUME CarefulInv, NEW new, NEW type, NEW y \in Years, CarefulSave(new, type, y),
         NEW n \in DOMAIN new
  PROVE  LineageOK(n)'
<1> DEFINE payload == IF type[n] = "abolish" THEN row[n] ELSE new[n]
<1>1. /\ n \in Nodes /\ new[n] \in Row /\ row'[n] = new[n]
      /\ versions'[n] = WriteVersion(versions[n], writes + 1, y, type[n], payload, row[n])
      /\ IsEdit(row[n], y, type[n], new[n], row[n])
      /\ IF type[n] = "create" THEN n \notin Live ELSE n \in Live
  BY DEF CarefulSave, MaySave, Save
<1>2. /\ versions[n] \in SUBSET Version(Row) /\ writes + 1 \in Nat /\ IsFiniteSet(versions[n])
      /\ \A v, w \in OpenRows(versions[n]) : v = w
  BY <1>1 DEF CarefulInv, LineageOK, TypeOK
<1>3. type[n] # "create" =>
        row[n] \in Row /\ Sound(row[n], versions[n]) /\ Edited(row[n], versions[n])
  BY <1>1, StoredRow DEF CarefulInv, LineageOK, Live, Stored
<1> HIDE DEF payload
<1>4. IsFiniteSet(versions'[n])
  BY <1>1, <1>2, WriteVersionFinite
<1>5. Sound(row'[n], versions'[n])
  BY <1>1, <1>2, EditKeepsSound
<1>6. Edited(row'[n], versions'[n])
  BY <1>1, <1>2, <1>3, EditKeepsEdited, RowIsDated
<1>7. OpenRows(versions'[n]) = OpenFrom(writes + 1, y, type[n], payload)
  BY <1>1, <1>2, WriteVersionOpen
<1>8. ASSUME NEW v \in OpenRows(versions'[n])
      PROVE  row'[n].abolished = NULL /\ View(v.payload) = View(row'[n])
  <2>1. type[n] # "abolish" /\ v.payload = payload
    BY <1>7, <1>8 DEF OpenFrom
  <2>2. payload = row'[n]
    BY <1>1, <2>1 DEF payload
  <2> QED
    BY <1>1, <2>1, <2>2 DEF IsEdit
<1>9. ASSUME NEW v \in versions'[n], ~IsOpen(v)
      PROVE  \E e \in log' : v.to < e.year
  <2>1. log \subseteq log'
    BY DEF CarefulSave, Save
  <2>2. CASE v \in versions[n]
    BY <1>1, <1>9, <2>1, <2>2 DEF CarefulInv, LineageOK
  <2>3. CASE v \notin versions[n] /\ type[n] = "create"
    <3>1. OpenRows(versions[n]) = {}
      BY <1>1, <2>3 DEF CarefulInv, LineageOK, Live, Stored, OpenRows
    <3>2. v \in OpenFrom(writes + 1, y, type[n], payload)
      BY <1>1, <2>3, <3>1 DEF WriteVersion, CloseCurrent, First, Backfill
    <3> QED
      BY <1>9, <3>2 DEF OpenFrom, IsOpen
  <2>4. CASE v \notin versions[n] /\ type[n] # "create"
    <3>1. [node |-> n, year |-> y, before |-> row[n]] \in log'
      BY <2>4 DEF CarefulSave, Save
    <3>2. v \in WriteVersion(versions[n], writes + 1, y, type[n], payload, row[n])
      BY <1>1, <1>9
    <3>3. v.to = y - 1
      BY <1>2, <1>9, <2>4, <3>2, WriteVersionBounds
    <3> QED
      BY <3>1, <3>3 DEF Years
  <2> QED
    BY <2>2, <2>3, <2>4
<1>10. row'[n] # NULL
  BY <1>1, RowAssumption
<1> QED
  BY <1>4, <1>5, <1>6, <1>8, <1>9, <1>10 DEF LineageOK, Sound

LEMMA CarefulSaveKeepsInv ==
  ASSUME CarefulInv, NEW new, NEW type, NEW y \in Years, CarefulSave(new, type, y)
  PROVE  CarefulInv'
<1>1. TypeOK' /\ KpisHaveLetters'
  BY SaveType, SaveLetters DEF CarefulInv, CarefulSave
<1>2. ASSUME NEW n \in Nodes \ DOMAIN new
      PROVE  LineageOK(n)'
  <2>1. row'[n] = row[n] /\ versions'[n] = versions[n] /\ log \subseteq log'
    BY <1>2 DEF CarefulSave, Save
  <2> QED
    BY <2>1 DEF CarefulInv, LineageOK
<1>3. \A n \in DOMAIN new : LineageOK(n)'
  BY SavedLineage
<1> QED
  BY <1>1, <1>2, <1>3 DEF CarefulInv

LEMMA InitCareful == Init => CarefulInv
<1> SUFFICES ASSUME Init PROVE CarefulInv
  OBVIOUS
<1>1. PICK seeds \in SUBSET Nodes, name \in Names :
        row = [n \in Nodes |-> IF n \in seeds THEN Seeded(n, name) ELSE NULL]
  BY DEF Init
<1>2. TypeOK /\ KpisHaveLetters
  BY InitHistory DEF HistoryInv
<1>3. ASSUME NEW n \in Nodes PROVE LineageOK(n)
  <2>1. versions[n] = {} /\ OpenRows(versions[n]) = {}
    BY DEF Init, OpenRows
  <2>2. row[n] # NULL => row[n].from = MinYear /\ row[n].abolished = NULL
    BY <1>1, SeededRow
  <2> QED
    BY <2>1, <2>2, FS_EmptySet DEF LineageOK, Sound, Edited
<1> QED
  BY <1>2, <1>3 DEF CarefulInv

-----------------------------------------------------------------------------
(* Careful administrators: the years.                                      *)

\* What getTree shows of a node, as a function of its rows.
Told(r, vs, x) == IF r = NULL THEN {} ELSE {View(v) : v \in Tells(r, vs, x)}

LEMMA ShownIsTold ==
  ASSUME NEW n \in Nodes, NEW x
  PROVE  Shown(n, x) = Told(row[n], versions[n], x) /\ Shown(n, x)' = Told(row'[n], versions'[n], x)
BY DEF Shown, Told, Tells, Active, Stored

\* A year shows a node exactly if the node is in force in it.
LEMMA ShownIsActive ==
  ASSUME NEW n, NEW x
  PROVE  /\ Active(n, x) <=> Shown(n, x) # {}
         /\ Active(n, x)' <=> Shown(n, x)' # {}
BY DEF Shown

\* A careful request for year y reaches no earlier year.
LEMMA SaveSparesPast ==
  ASSUME CarefulInv, NEW new, NEW type, NEW y \in Years, CarefulSave(new, type, y),
         NEW n \in Nodes, NEW x \in Years, x < y
  PROVE  Shown(n, x)' = Shown(n, x)
<1>1. CASE n \notin DOMAIN new
  <2>1. row'[n] = row[n] /\ versions'[n] = versions[n]
    BY <1>1 DEF CarefulSave, Save
  <2> QED
    BY <2>1, ShownIsTold
<1>2. CASE n \in DOMAIN new
  <2> DEFINE payload == IF type[n] = "abolish" THEN row[n] ELSE new[n]
  <2>1. /\ new[n] \in Row /\ row'[n] = new[n]
        /\ versions'[n] = WriteVersion(versions[n], writes + 1, y, type[n], payload, row[n])
        /\ IsEdit(row[n], y, type[n], new[n], row[n])
        /\ IF type[n] = "create" THEN n \notin Live ELSE n \in Live
    BY <1>2 DEF CarefulSave, MaySave, Save
  <2>2. /\ versions[n] \in SUBSET Version(Row) /\ writes + 1 \in Nat /\ IsFiniteSet(versions[n])
    BY DEF CarefulInv, LineageOK, TypeOK
  <2>3. row'[n] # NULL
    BY <2>1, RowAssumption
  <2>4. CASE row[n] # NULL
    <3>1. row[n] \in Row /\ Sound(row[n], versions[n]) /\ Edited(row[n], versions[n])
      BY <2>4 DEF CarefulInv, LineageOK, TypeOK
    <3>2. type[n] = "create" => row[n].abolished # NULL
      BY <2>1, <2>4 DEF Live, Stored
    <3>3. payload \in Row
      BY <2>1, <3>1
    <3> HIDE DEF payload
    <3>4. Tells(row'[n], versions'[n], x) = Tells(row[n], versions[n], x)
      BY <2>1, <2>2, <3>1, <3>2, <3>3, EditKeepsPast, RowIsDated
    <3> QED
      BY <2>3, <2>4, <3>4, ShownIsTold DEF Told
  <2>5. CASE row[n] = NULL
    <3>1. versions[n] = {} /\ type[n] = "create"
      BY <2>1, <2>5 DEF CarefulInv, LineageOK, Live, Stored
    <3> HIDE DEF payload
    <3>2. Tells(row'[n], versions'[n], x) = {}
      BY <2>1, <3>1, CreationKeepsPast
    <3> QED
      BY <2>3, <2>5, <3>2, ShownIsTold DEF Told
  <2> QED
    BY <2>4, <2>5
<1> QED
  BY <1>1, <1>2

\* When nothing was written for a year after y, every year from y on shows the
\* live plan.
NowIsShown ==
  \A y \in Years : NotBefore(y) =>
    \A n \in Nodes, x \in Years : x >= y =>
      Shown(n, x) = IF n \in Live THEN {View(row[n])} ELSE {}

LEMMA NowIsLive == CarefulInv => NowIsShown
<1> SUFFICES ASSUME CarefulInv, NEW y \in Years, NotBefore(y), NEW n \in Nodes,
                    NEW x \in Years, x >= y
             PROVE  Shown(n, x) = IF n \in Live THEN {View(row[n])} ELSE {}
  BY DEF NowIsShown
<1>1. CASE row[n] = NULL
  BY <1>1, ShownIsTold DEF Told, Live, Stored
<1>2. CASE row[n] # NULL
  <2>1. /\ versions[n] \in SUBSET Version(Row) /\ row[n] \in Row
        /\ Sound(row[n], versions[n]) /\ Edited(row[n], versions[n])
        /\ row[n].abolished # NULL => OpenRows(versions[n]) = {}
    BY <1>2 DEF CarefulInv, LineageOK, TypeOK
  <2>2. ASSUME NEW v \in versions[n]
        PROVE  IF IsOpen(v) THEN v.from <= x ELSE v.to < x
    <3>1. v.from \in Int /\ v.from <= y
      BY <2>1, <2>2 DEF NotBefore, Version, Years
    <3>2. ~IsOpen(v) => v.to \in Int /\ \E e \in log : v.to < e.year /\ e.year <= y /\ e.year \in Int
      BY <2>1, <2>2 DEF CarefulInv, LineageOK, NotBefore, Version, YearOrNull, IsOpen, Years, TypeOK
    <3> QED
      BY <3>1, <3>2 DEF Years
  <2>3. Tells(row[n], versions[n], x)
          = IF row[n].abolished # NULL THEN {}
            ELSE IF versions[n] = {} THEN {row[n]} ELSE {v.payload : v \in OpenRows(versions[n])}
    <3>1. \A v \in versions[n] : IF IsOpen(v) THEN v.from <= x ELSE v.to < x
      BY <2>2
    <3> DEFINE r == row[n]
               vs == versions[n]
    <3>2. /\ Dated(Row) /\ r \in Row /\ vs \in SUBSET Version(Row) /\ Sound(r, vs) /\ Edited(r, vs)
          /\ r.abolished # NULL => OpenRows(vs) = {}
          /\ \A v \in vs : IF IsOpen(v) THEN v.from <= x ELSE v.to < x
      BY <2>1, <3>1, RowIsDated
    <3> HIDE DEF r, vs
    <3>3. Tells(r, vs, x) = IF r.abolished # NULL THEN {}
                            ELSE IF vs = {} THEN {r} ELSE {v.payload : v \in OpenRows(vs)}
      BY <3>2, NowShows
    <3> QED
      BY <3>3 DEF r, vs
  <2>4. Shown(n, x) = {View(r) : r \in Tells(row[n], versions[n], x)}
    BY <1>2, ShownIsTold DEF Told
  <2>5. CASE n \notin Live
    BY <1>2, <2>3, <2>4, <2>5 DEF Live, Stored
  <2>6. CASE n \in Live /\ versions[n] = {}
    BY <2>3, <2>4, <2>6 DEF Live
  <2>7. CASE n \in Live /\ versions[n] # {}
    <3>1. row[n].abolished = NULL
      BY <2>7 DEF Live
    <3>2. OpenRows(versions[n]) # {}
      BY <2>1, <2>7, <3>1 DEF Sound
    <3>3. \A v \in OpenRows(versions[n]) : View(v.payload) = View(row[n])
      BY DEF CarefulInv, LineageOK
    <3>4. Shown(n, x) = {View(v.payload) : v \in OpenRows(versions[n])}
      BY <2>3, <2>4, <2>7, <3>1
    <3> QED
      BY <2>7, <3>2, <3>3, <3>4
  <2> QED
    BY <2>5, <2>6, <2>7
<1> QED
  BY <1>1, <1>2

\* Working forward leaves nothing written for a later year.
LEMMA SaveIsNotBefore ==
  ASSUME CarefulInv, NEW new, NEW type, NEW y \in Years, CarefulSave(new, type, y), NotBefore(y)
  PROVE  NotBefore(y)'
<1>1. \A e \in log' : e.year <= y
  BY DEF CarefulSave, Save, NotBefore, Years
<1>2. ASSUME NEW n \in Nodes, NEW v \in versions'[n]
      PROVE  v.from <= y
  <2>1. CASE n \notin DOMAIN new
    BY <1>2, <2>1 DEF CarefulSave, Save, NotBefore
  <2>2. CASE n \in DOMAIN new
    <3> DEFINE payload == IF type[n] = "abolish" THEN row[n] ELSE new[n]
    <3>1. versions'[n] = WriteVersion(versions[n], writes + 1, y, type[n], payload, row[n])
      BY <2>2 DEF CarefulSave, Save
    <3> HIDE DEF payload
    <3>2. versions[n] \in SUBSET Version(Row)
      BY DEF CarefulInv, TypeOK
    <3>3. v \in WriteVersion(versions[n], writes + 1, y, type[n], payload, row[n])
      BY <1>2, <3>1
    <3>4. v.from \in {MinYear, y} \/ \E w \in versions[n] : v.from = w.from
      BY <3>2, <3>3, WriteVersionBounds
    <3> QED
      BY <3>4 DEF NotBefore, Years
  <2> QED
    BY <2>1, <2>2
<1> QED
  BY <1>1, <1>2 DEF NotBefore

LEMMA PastIsKept == CarefulInv => PastKept
<1> SUFFICES ASSUME CarefulInv, NEW y \in Years, EditFor(y), NEW n \in Nodes, NEW x \in Years, x < y
             PROVE  Shown(n, x)' = Shown(n, x)
  BY DEF PastKept
<1>1. PICK new, type : CarefulSave(new, type, y)
  BY EditIsCareful DEF CarefulInv
<1> QED
  BY <1>1, SaveSparesPast

-----------------------------------------------------------------------------
(* Careful administrators: the tree.                                       *)

\* A node below the goals stores a parent of its kind; a goal stores none.
ParentsOfKind ==
  \A n \in Stored : IF n \in Goals THEN row[n].above = <<>>
                    ELSE row[n].above # <<>> /\ Head(row[n].above) \in ParentKind(n)

TreeInv == ParentsOfKind /\ LivePlanIsTree /\ SuffixesDistinct

\* A set of nodes that a cascade may take: with a node, the live nodes under it.
ClosedBelow(nodes) == \A n \in Live, p \in nodes : Under(n, p) => n \in nodes

LEMMA ParentKinds ==
  ASSUME ParentsOfKind, NEW n \in Stored, NEW p, Under(n, p)
  PROVE  /\ p \in Goals => n \in Strategies
         /\ p \in Strategies => n \in Tasks
         /\ p \in Tasks => n \in Subtasks \cup Kpis
         /\ p \in Goals \cup Strategies \cup Tasks
         /\ n \in Strategies => p \in Goals
         /\ n \in Tasks => p \in Strategies
         /\ n \in Subtasks \cup Kpis => p \in Tasks
         /\ n \notin Goals
<1>1. n \notin Goals /\ p \in ParentKind(n) /\ n \in Nodes
  BY DEF ParentsOfKind, Under, Stored
<1> QED
  BY <1>1, KindsAssumption, TreeAssumption DEF ParentKind, Nodes

LEMMA CascadeIsClosed ==
  ASSUME ParentsOfKind, NEW tops \in SUBSET Stored
  PROVE  ClosedBelow(Cascade(tops))
<1> DEFINE second == LiveBelow(tops)
           third == LiveBelow(second)
           fourth == LiveBelow(third)
<1>1. Live \subseteq Stored
  BY DEF Live
<1>2. second \subseteq Strategies \cup Tasks \cup Subtasks \cup Kpis
  BY <1>1, ParentKinds DEF LiveBelow
<1>3. third \subseteq Tasks \cup Subtasks \cup Kpis
  BY <1>1, <1>2, ParentKinds DEF LiveBelow
<1>4. fourth \subseteq Subtasks \cup Kpis
  BY <1>1, <1>3, ParentKinds, KindsAssumption DEF LiveBelow
<1>5. ASSUME NEW n \in Live, NEW p \in Cascade(tops), Under(n, p)
      PROVE  n \in Cascade(tops)
  <2>1. p \notin fourth
    BY <1>1, <1>4, <1>5, ParentKinds, KindsAssumption
  <2>2. p \in tops \cup second \cup third
    BY <1>5, <2>1 DEF Cascade
  <2> QED
    BY <1>5, <2>2 DEF Cascade, LiveBelow
<1> QED
  BY <1>5 DEF ClosedBelow

LEMMA KpisAreClosed ==
  ASSUME ParentsOfKind
  PROVE  ClosedBelow(Live \cap Kpis)
BY ParentKinds, KindsAssumption DEF ClosedBelow, Live

LEMMA HeadOfAbove ==
  ASSUME NEW p \in Nodes, NEW codes \in Seq(Nodes)
  PROVE  /\ <<p>> # <<>> /\ Head(<<p>>) = p
         /\ <<p>> \o codes # <<>> /\ Head(<<p>> \o codes) = p /\ Tail(<<p>> \o codes) = codes
<1>1. <<p>> \in Seq(Nodes) /\ Len(<<p>>) = 1
  OBVIOUS
<1> DEFINE both == <<p>> \o codes
<1>2. /\ both \in Seq(Nodes) /\ Len(both) = 1 + Len(codes) /\ Len(codes) \in Nat
      /\ \A i \in 1..(1 + Len(codes)) : both[i] = IF i <= 1 THEN p ELSE codes[i - 1]
  BY <1>1, ConcatProperties, LenProperties
<1> HIDE DEF both
<1>3. both # <<>>
  BY <1>2, EmptySeq
<1>4. Head(both) = p
  BY <1>2, <1>3
<1>5. Tail(both) \in Seq(Nodes) /\ Len(Tail(both)) = Len(codes)
      /\ \A i \in 1..Len(codes) : Tail(both)[i] = codes[i]
  BY <1>2, <1>3, HeadTailProperties
<1>6. Tail(both) = codes
  BY <1>5, SeqEqual
<1> QED
  BY <1>1, <1>3, <1>4, <1>6 DEF both

\* The codes the seed stores: a node's own parent first, then the parent's own.
LEMMA SeedsAbove ==
  ASSUME NEW n \in Nodes
  PROVE  /\ n \in Goals => SeedAbove(n) = <<>>
         /\ n \notin Goals => SeedAbove(n) # <<>> /\ Head(SeedAbove(n)) = Home[n]
         /\ n \in Tasks \cup Kpis => Tail(SeedAbove(n)) = SeedAbove(Home[n])
<1>1. CASE n \in Goals
  BY <1>1, KindsAssumption DEF SeedAbove
<1>2. CASE n \in Strategies \cup Subtasks
  BY <1>2, KindsAssumption DEF SeedAbove
<1>3. CASE n \in Tasks
  <2>1. Home[n] \in Strategies /\ n \notin Goals \cup Strategies \cup Subtasks
    BY <1>3, TreeAssumption, KindsAssumption
  <2>2. SeedAbove(n) = <<Home[n], Home[Home[n]]>> /\ SeedAbove(Home[n]) = <<Home[Home[n]]>>
    BY <1>3, <2>1, KindsAssumption DEF SeedAbove
  <2> QED
    BY <2>1, <2>2
<1>4. CASE n \in Kpis
  <2>1. Home[n] \in Tasks /\ n \notin Goals \cup Strategies \cup Subtasks \cup Tasks
    BY <1>4, TreeAssumption, KindsAssumption
  <2>2. SeedAbove(n) = <<Home[n], Home[Home[n]], Home[Home[Home[n]]]>>
    BY <2>1 DEF SeedAbove
  <2>3. SeedAbove(Home[n]) = <<Home[Home[n]], Home[Home[Home[n]]]>>
    BY <2>1, KindsAssumption DEF SeedAbove
  <2> QED
    BY <2>1, <2>2, <2>3
<1> QED
  BY <1>1, <1>2, <1>3, <1>4 DEF Nodes

LEMMA InitTree == Init => TreeInv
<1> SUFFICES ASSUME Init PROVE TreeInv
  OBVIOUS
<1>1. PICK seeds \in SUBSET Nodes, name \in Names :
        /\ \A n \in seeds \ Goals : Home[n] \in seeds
        /\ row = [n \in Nodes |-> IF n \in seeds THEN Seeded(n, name) ELSE NULL]
  BY DEF Init
<1>2. \A n \in seeds : /\ row[n] = Seeded(n, name) /\ row[n] # NULL /\ row[n].abolished = NULL
                       /\ row[n].above = SeedAbove(n) /\ (n \in Kpis => row[n].suffix = Letter[n])
  <2>1. \A n \in seeds : Seeded(n, name) # NULL
    BY SeededRow, RowAssumption
  <2> QED
    BY <1>1, <2>1, SeededRow
<1>3. Stored = seeds /\ Live = seeds
  BY <1>1, <1>2 DEF Stored, Live
<1>4. ParentsOfKind
  <2>1. \A n \in seeds \ Goals : Home[n] \in ParentKind(n)
    BY TreeAssumption, KindsAssumption DEF ParentKind, Nodes
  <2> QED
    BY <1>2, <1>3, <2>1, SeedsAbove DEF ParentsOfKind
<1>5. ParentsLive
  <2>1. \A n \in seeds \ Goals : Home[n] \in seeds /\ Under(n, Home[n])
    BY <1>1, <1>2, SeedsAbove DEF Under
  <2> QED
    BY <1>3, <2>1 DEF ParentsLive
<1>6. AncestorsAgree
  <2> SUFFICES ASSUME NEW n \in Live \cap (Tasks \cup Kpis), NEW p \in Stored, Under(n, p)
               PROVE  Tail(row[n].above) = row[p].above
    BY DEF AncestorsAgree
  <2>1. n \in seeds /\ n \notin Goals /\ p \in seeds
    BY <1>3, KindsAssumption
  <2>2. p = Home[n]
    BY <1>2, <2>1, SeedsAbove DEF Under
  <2> QED
    BY <1>2, <2>1, <2>2, SeedsAbove
<1>7. SuffixesDistinct
  BY <1>2, <1>3, TreeAssumption DEF SuffixesDistinct
<1> QED
  BY <1>4, <1>5, <1>6, <1>7 DEF TreeInv, LivePlanIsTree

LEMMA CreateKeepsTree ==
  ASSUME TypeOK, TreeInv, NEW n \in Nodes, NEW name \in Names, NEW p \in Nodes, NEW y \in Years,
         n \in Goals \/ p \in Live, CreateNode(n, name, p, y),
         NEW new, Creates(n, name, p, y, new)
  PROVE  TreeInv'
<1>1. /\ row'[n] = new[n] /\ new[n].above = Above(n, p) /\ new[n].abolished = NULL
      /\ new[n] # NULL /\ (n \in Kpis => new[n].suffix = Letter[n])
      /\ \A m \in Nodes \ {n} : row'[m] = row[m]
  BY RowAssumption DEF Creates, Save
<1>2. n \notin Live /\ (n \notin Goals => p \in ParentKind(n) \cap Stored)
  BY DEF CreateNode, Live
<1>3. Stored' = Stored \cup {n} /\ Live' = Live \cup {n}
  BY <1>1 DEF Stored, Live
<1>4. /\ n \in Goals => row'[n].above = <<>>
      /\ n \notin Goals => row'[n].above # <<>> /\ Head(row'[n].above) = p
      /\ n \in Tasks \cup Kpis => Tail(row'[n].above) = row[p].above
  <2>1. p \in Stored => row[p].above \in Seq(Nodes)
    BY StoredRow DEF Row
  <2>2. n \in Tasks \cup Kpis => n \notin Goals \cup Strategies \cup Subtasks
    BY KindsAssumption
  <2> QED
    BY <1>1, <1>2, <2>1, <2>2, HeadOfAbove DEF Above
<1>5. Live \subseteq Stored /\ Stored \subseteq Nodes
  BY DEF Live, Stored
<1>6. ParentsOfKind'
  <2>1. ASSUME NEW m \in Stored'
        PROVE  IF m \in Goals THEN row'[m].above = <<>>
               ELSE row'[m].above # <<>> /\ Head(row'[m].above) \in ParentKind(m)
    <3>1. CASE m = n
      BY <1>2, <1>4, <3>1
    <3>2. CASE m # n
      BY <1>1, <1>3, <1>5, <2>1, <3>2 DEF TreeInv, ParentsOfKind
    <3> QED
      BY <3>1, <3>2
  <2> QED
    BY <2>1 DEF ParentsOfKind, ParentKind
<1>7. ParentsLive'
  <2> SUFFICES ASSUME NEW m \in Live' \ Goals
               PROVE  \E q \in Live' : Under(m, q)'
    BY DEF ParentsLive
  <2>1. CASE m = n
    BY <1>3, <1>4, <2>1 DEF Under
  <2>2. CASE m # n
    <3>1. PICK q \in Live : Under(m, q)
      BY <1>3, <2>2 DEF TreeInv, LivePlanIsTree, ParentsLive
    <3> QED
      BY <1>1, <1>3, <1>5, <2>2, <3>1 DEF Under
  <2> QED
    BY <2>1, <2>2
<1>8. AncestorsAgree'
  <2> SUFFICES ASSUME NEW m \in Live' \cap (Tasks \cup Kpis), NEW q \in Stored', Under(m, q)'
               PROVE  Tail(row'[m].above) = row'[q].above
    BY DEF AncestorsAgree
  <2>1. CASE m = n
    <3>1. n \notin Goals /\ p \in Live /\ q = p
      BY <1>4, <2>1, KindsAssumption DEF Under
    <3> QED
      BY <1>1, <1>2, <1>4, <2>1, <3>1
  <2>2. CASE m # n
    <3>1. m \in Live /\ m \notin Goals /\ row'[m] = row[m]
      BY <1>1, <1>3, <1>5, <2>2, KindsAssumption
    <3>2. PICK r \in Live : Under(m, r)
      BY <3>1 DEF TreeInv, LivePlanIsTree, ParentsLive
    <3>3. r = q /\ q # n /\ q \in Stored
      BY <1>2, <1>3, <3>1, <3>2 DEF Under
    <3>4. row'[q] = row[q]
      BY <1>1, <1>5, <3>3
    <3> QED
      BY <3>1, <3>2, <3>3, <3>4 DEF TreeInv, LivePlanIsTree, AncestorsAgree
  <2> QED
    BY <2>1, <2>2
<1>9. SuffixesDistinct'
  <2>1. n \in Kpis => \A j \in LiveSiblings(n) : row[j].suffix # Letter[n]
    BY DEF CreateNode, SuffixFree
  <2> QED
    BY <1>1, <1>3, <1>5, <2>1 DEF TreeInv, SuffixesDistinct, LiveSiblings
<1> QED
  BY <1>6, <1>7, <1>8, <1>9 DEF TreeInv, LivePlanIsTree

\* A request that moves and revives no node, and abolishes no parent of a node
\* that stays.
LEMMA KeptAboveKeepsTree ==
  ASSUME TreeInv, Live' \subseteq Live, Stored' = Stored,
         \A m \in Stored : row'[m].above = row[m].above,
         \A m \in Live', p \in Live : Under(m, p) => p \in Live'
  PROVE  ParentsOfKind' /\ LivePlanIsTree'
<1>1. Live \subseteq Stored /\ Live' \subseteq Stored
  BY DEF Live
<1>2. \A m \in Stored : \A p : Under(m, p)' <=> Under(m, p)
  BY DEF Under
<1>3. ParentsOfKind'
  BY DEF TreeInv, ParentsOfKind, ParentKind
<1>4. ParentsLive'
  BY <1>1, <1>2 DEF TreeInv, LivePlanIsTree, ParentsLive
<1>5. AncestorsAgree'
  BY <1>1, <1>2 DEF TreeInv, LivePlanIsTree, AncestorsAgree
<1> QED
  BY <1>3, <1>4, <1>5 DEF LivePlanIsTree

LEMMA UpdateKeepsTree ==
  ASSUME TypeOK, TreeInv, NEW n \in Stored, NEW name \in Names, NEW s \in Letters \cup {NULL},
         NEW y \in Years, UpdateNode(n, name, s, y), NEW new, Updates(n, name, s, y, new)
  PROVE  TreeInv'
<1>1. /\ n \in Nodes /\ row[n] \in Row
      /\ Live \subseteq Stored /\ Stored \subseteq Nodes /\ n \in Stored
  BY StoredRow DEF Live, Stored
<1>2. /\ row'[n] # NULL /\ row'[n].above = row[n].above
      /\ row'[n].abolished = row[n].abolished
      /\ row'[n].suffix = s
      /\ \A m \in Nodes \ {n} : row'[m] = row[m]
  <2>1. row'[n] = [row[n] EXCEPT !.name = name, !.suffix = s] /\ row'[n] \in Row
    BY <1>1 DEF Updates, Save
  <2>2. \A m \in Nodes \ {n} : row'[m] = row[m]
    BY DEF Updates, Save
  <2> QED
    BY <1>1, <2>1, <2>2, RowAssumption DEF Row
<1>3. Stored' = Stored /\ Live' = Live
  BY <1>1, <1>2 DEF Stored, Live
<1>4. ParentsOfKind' /\ LivePlanIsTree'
  BY <1>1, <1>2, <1>3, KeptAboveKeepsTree
<1>5. SuffixesDistinct'
  <2>1. s # row[n].suffix => n \in Kpis /\ \A j \in LiveSiblings(n) : row[j].suffix # s
    BY DEF UpdateNode, SuffixFree
  <2> QED
    BY <1>1, <1>2, <1>3, <2>1 DEF TreeInv, SuffixesDistinct, LiveSiblings
<1> QED
  BY <1>4, <1>5 DEF TreeInv

LEMMA AbolitionKeepsTree ==
  ASSUME TypeOK, TreeInv, NEW nodes \in SUBSET Stored, ClosedBelow(nodes), NEW y \in Years,
         AbolishAll(nodes, y)
  PROVE  TreeInv'
<1>1. Live \subseteq Stored /\ Stored \subseteq Nodes /\ \A n \in nodes : row[n] \in Row
  BY StoredRow DEF Live, Stored
<1>2. /\ \A n \in nodes : row'[n] = [row[n] EXCEPT !.abolished = y]
      /\ \A n \in Nodes \ nodes : row'[n] = row[n]
  BY <1>1 DEF AbolishAll, Save
<1>3. \A n \in nodes : row'[n] # NULL /\ row'[n].abolished = y /\ y # NULL
                       /\ row'[n].above = row[n].above /\ row'[n].suffix = row[n].suffix
  <2> SUFFICES ASSUME NEW n \in nodes
               PROVE  row'[n] # NULL /\ row'[n].abolished = y /\ y # NULL
                      /\ row'[n].above = row[n].above /\ row'[n].suffix = row[n].suffix
    OBVIOUS
  <2>1. row[n] \in Row /\ row'[n] = [row[n] EXCEPT !.abolished = y]
    BY <1>1, <1>2
  <2>2. row'[n] \in Row
    BY <2>1, AbolishedRow
  <2> QED
    BY <2>1, <2>2, AbolishedRow, RowAssumption
<1>4. Stored' = Stored /\ Live' = Live \ nodes
  BY <1>1, <1>2, <1>3 DEF Stored, Live
<1>5. \A m \in Stored : row'[m].above = row[m].above /\ row'[m].suffix = row[m].suffix
  BY <1>1, <1>2, <1>3
<1>6. ParentsOfKind' /\ LivePlanIsTree'
  <2>1. \A m \in Live', p \in Live : Under(m, p) => p \in Live'
    BY <1>4 DEF ClosedBelow
  <2> QED
    BY <1>4, <1>5, <2>1, KeptAboveKeepsTree
<1>7. SuffixesDistinct'
  BY <1>1, <1>4, <1>5 DEF TreeInv, SuffixesDistinct
<1> QED
  BY <1>6, <1>7 DEF TreeInv

LEMMA AbolishKpiKeepsTree ==
  ASSUME TypeOK, KpisHaveLetters, TreeInv, NEW k, NEW y \in Years, AbolishKpi(k, y)
  PROVE  TreeInv'
<1>1. /\ k \in Kpis /\ k \in Stored /\ row[k] \in Row
      /\ Live \subseteq Stored /\ Stored \subseteq Nodes
      /\ Save(ClosedUp(k, y), ClosingTypes(k), y)
  BY AbolishKpiSaves, StoredRow DEF Live, Stored
<1>2. row'[k] = [row[k] EXCEPT !.abolished = y]
  BY <1>1 DEF Save, ClosedUp
<1>3. row'[k] # NULL /\ row'[k].abolished = y /\ y # NULL /\ row'[k].above = row[k].above
  BY <1>1, <1>2, AbolishedRow, RowAssumption
<1>4. ASSUME NEW j \in LiveSiblings(k)
      PROVE  /\ row'[j] # NULL /\ row'[j].abolished = NULL /\ row'[j].above = row[j].above
             /\ row'[j].suffix = CompactSuffix(j, LiveSiblings(k))
  <2>1. row[j] \in Row /\ row[j].abolished = NULL
    BY StoredRow DEF LiveSiblings, Live
  <2>2. row'[j] = [row[j] EXCEPT !.suffix = CompactSuffix(j, LiveSiblings(k))]
    BY AbolitionRenumbers
  <2>3. CompactSuffix(j, LiveSiblings(k)) \in Letters
    BY <1>1, RankIsLetter
  <2>4. row'[j] \in Row
    BY <2>1, <2>2, <2>3 DEF Row
  <2> QED
    BY <2>1, <2>2, <2>4, RowAssumption DEF Row
<1>5. ASSUME NEW m \in Nodes, m # k, m \notin LiveSiblings(k)
      PROVE  row'[m] = row[m]
  <2>1. m \notin {k} \cup Moved(k)
    BY <1>5 DEF Moved
  <2> QED
    BY <1>1, <2>1 DEF Save, ClosedUp
<1>6. \A j \in LiveSiblings(k) : j \in Live /\ j # k
  BY DEF LiveSiblings
<1>7. Stored' = Stored /\ Live' = Live \ {k}
  BY <1>1, <1>3, <1>4, <1>5, <1>6 DEF Stored, Live
<1>8. ParentsOfKind' /\ LivePlanIsTree'
  <2>1. \A m \in Stored : row'[m].above = row[m].above
    BY <1>1, <1>3, <1>4, <1>5
  <2>2. \A m \in Stored : ~Under(m, k)
    BY <1>1, ParentKinds, KindsAssumption DEF TreeInv
  <2>3. \A m \in Live', p \in Live : Under(m, p) => p \in Live'
    BY <1>1, <1>7, <2>2
  <2> QED
    BY <1>7, <2>1, <2>3, KeptAboveKeepsTree
<1>9. SuffixesDistinct'
  <2> SUFFICES ASSUME NEW i \in Live' \cap Kpis, NEW j \in Live' \cap Kpis,
                      Home[i] = Home[j], row'[i].suffix = row'[j].suffix
               PROVE  i = j
    BY DEF SuffixesDistinct
  <2>1. i \in Live /\ j \in Live /\ i # k /\ j # k
    BY <1>7
  <2>2. CASE Home[i] = Home[k]
    <3>1. i \in LiveSiblings(k) /\ j \in LiveSiblings(k)
      BY <2>1, <2>2 DEF LiveSiblings
    <3> QED
      BY <1>1, <1>4, <3>1, RanksFill
  <2>3. CASE Home[i] # Home[k]
    <3>1. row'[i] = row[i] /\ row'[j] = row[j]
      BY <1>1, <1>5, <2>1, <2>3 DEF LiveSiblings
    <3> QED
      BY <2>1, <3>1 DEF TreeInv, SuffixesDistinct
  <2> QED
    BY <2>2, <2>3
<1> QED
  BY <1>8, <1>9 DEF TreeInv

\* A cascade from stored nodes takes stored nodes, and all that is live below them.
LEMMA CascadeKeepsTree ==
  ASSUME TypeOK, TreeInv, NEW tops \in SUBSET Stored, NEW y \in Years,
         AbolishAll(Cascade(tops), y)
  PROVE  TreeInv'
<1>1. Cascade(tops) \in SUBSET Stored /\ ClosedBelow(Cascade(tops))
  BY CascadeIsStored, CascadeIsClosed DEF TreeInv
<1> QED
  BY <1>1, AbolitionKeepsTree

\* Every request that puts no node under an abolished one and rolls nothing back keeps
\* the live plan a tree, also when it edits or abolishes a node that is no longer live.
LEMMA EditKeepsTree ==
  ASSUME TypeOK, KpisHaveLetters, TreeInv, NEW y \in Years,
         CarefulCreate(y) \/ Update(y) \/ Abolish(y) \/ Revise(y)
  PROVE  TreeInv'
<1>1. CASE CarefulCreate(y)
  <2>1. PICK n \in Nodes, name \in Names, p \in Nodes :
          (n \in Goals \/ p \in Live) /\ CreateNode(n, name, p, y)
    BY <1>1 DEF CarefulCreate
  <2>2. PICK new : Creates(n, name, p, y, new)
    BY <2>1, CreateSaves
  <2> QED
    BY <2>1, <2>2, CreateKeepsTree
<1>2. CASE Update(y)
  <2>1. PICK n \in Nodes, name \in Names, s \in Letters \cup {NULL} : UpdateNode(n, name, s, y)
    BY <1>2 DEF Update
  <2>2. n \in Stored
    BY <2>1 DEF UpdateNode
  <2>3. PICK new : Updates(n, name, s, y, new)
    BY <2>1, UpdateSaves
  <2> QED
    BY <2>1, <2>2, <2>3, UpdateKeepsTree
<1>3. CASE Abolish(y)
  <2>1. ASSUME NEW n \in Nodes, AbolishNode(n, y) PROVE TreeInv'
    BY <2>1, CascadeKeepsTree DEF AbolishNode
  <2> QED
    BY <1>3, <2>1, AbolishKpiKeepsTree DEF Abolish
<1>4. CASE Revise(y)
  <2>1. Live \cap Goals \in SUBSET Stored /\ Live \cap Kpis \in SUBSET Stored
    BY DEF Live
  <2>2. ClosedBelow(Live \cap Kpis)
    BY KpisAreClosed DEF TreeInv
  <2> QED
    BY <1>4, <2>1, <2>2, CascadeKeepsTree, AbolitionKeepsTree DEF Revise, ReviseStructure, ReviseKpis
<1> QED
  BY <1>1, <1>2, <1>3, <1>4

LEMMA CarefulIsEdit ==
  ASSUME NEW y, EditFor(y)
  PROVE  CarefulCreate(y) \/ Update(y) \/ Abolish(y) \/ Revise(y)
<1>1. Live \subseteq Nodes
  BY DEF Live, Stored
<1> QED
  BY <1>1 DEF EditFor, CarefulUpdate, Update, CarefulAbolish, Abolish

-----------------------------------------------------------------------------
(* Careful administrators who work forward: the plan of every year.        *)

\* Every live node is below a live goal: the cascade from the goals takes all.
LEMMA CascadeTakesAll ==
  ASSUME TreeInv
  PROVE  Live \subseteq Cascade(Live \cap Goals)
<1> DEFINE second == LiveBelow(Live \cap Goals)
           third == LiveBelow(second)
<1>1. Live \subseteq Stored /\ Live \subseteq Nodes
  BY DEF Live, Stored
<1>2. Live \cap Strategies \subseteq second
  BY <1>1, ParentKinds, KindsAssumption DEF TreeInv, LivePlanIsTree, ParentsLive, LiveBelow
<1>3. Live \cap Tasks \subseteq third
  <2>1. ASSUME NEW n \in Live \cap Tasks PROVE n \in LiveBelow(second)
    <3>1. PICK p \in Live : Under(n, p)
      BY <2>1, KindsAssumption DEF TreeInv, LivePlanIsTree, ParentsLive
    <3>2. p \in Strategies
      BY <1>1, <2>1, <3>1, ParentKinds DEF TreeInv
    <3> QED
      BY <1>2, <2>1, <3>1, <3>2 DEF LiveBelow
  <2> QED
    BY <2>1
<1>4. Live \cap (Subtasks \cup Kpis) \subseteq LiveBelow(third)
  <2>1. ASSUME NEW n \in Live \cap (Subtasks \cup Kpis) PROVE n \in LiveBelow(third)
    <3>1. PICK p \in Live : Under(n, p)
      BY <2>1, KindsAssumption DEF TreeInv, LivePlanIsTree, ParentsLive
    <3>2. p \in Tasks
      BY <1>1, <2>1, <3>1, ParentKinds DEF TreeInv
    <3> QED
      BY <1>3, <2>1, <3>1, <3>2 DEF LiveBelow
  <2> QED
    BY <2>1
<1> QED
  BY <1>1, <1>2, <1>3, <1>4 DEF Cascade, Nodes

LEMMA RevisionEmpties == CarefulInv /\ TreeInv => RevisionLeavesBlank
<1> SUFFICES ASSUME CarefulInv, TreeInv, NEW y \in Years, NotBefore(y), ReviseStructure(y),
                    NEW n \in Nodes, NEW x \in Years, x >= y
             PROVE  Shown(n, x)' = {}
  BY DEF RevisionLeavesBlank
<1> DEFINE nodes == Cascade(Live \cap Goals)
<1>1. nodes \in SUBSET Live /\ AbolishAll(nodes, y)
  BY CascadeIsLive DEF ReviseStructure
<1>2. Live \subseteq nodes
  BY CascadeTakesAll
<1> HIDE DEF nodes
<1>3. CarefulSave([m \in nodes |-> [row[m] EXCEPT !.abolished = y]],
                  [m \in nodes |-> "abolish"], y)
  BY <1>1, AbolitionIsCareful DEF CarefulInv
<1>4. CarefulInv' /\ NotBefore(y)'
  BY <1>3, CarefulSaveKeepsInv, SaveIsNotBefore
<1>5. n \notin Live'
  <2>1. CASE n \in nodes
    <3>1. row[n] \in Row /\ row'[n] = [row[n] EXCEPT !.abolished = y]
      BY <1>1, <2>1, StoredRow DEF CarefulInv, Live, AbolishAll, Save
    <3>2. row'[n].abolished = y /\ y # NULL
      BY <3>1, AbolishedRow
    <3> QED
      BY <3>2 DEF Live
  <2>2. CASE n \notin nodes
    <3>1. row'[n] = row[n] /\ n \notin Live
      BY <1>1, <1>2, <2>2 DEF AbolishAll, Save
    <3> QED
      BY <3>1 DEF Live, Stored
  <2> QED
    BY <2>1, <2>2
<1>6. NowIsShown'
  BY <1>4, NowIsLive, PTL
<1> QED
  BY <1>4, <1>5, <1>6 DEF NowIsShown

\* Where the live plan is a tree, so is the plan of a year that shows it.
ShowsLive(x) == \A n \in Nodes : Shown(n, x) = IF n \in Live THEN {View(row[n])} ELSE {}

YearIsTree(x) ==
  /\ \A n \in Nodes \ Goals : \A v \in Shown(n, x) : Active(Head(v.above), x)
  /\ \A j, k \in Kpis : \A v \in Shown(j, x), w \in Shown(k, x) :
       Home[j] = Home[k] /\ v.suffix = w.suffix => j = k

LiveYearsAreTrees == \A x \in Years : ShowsLive(x) => YearIsTree(x)

LEMMA YearsAreTrees == YearPlanIsTree <=> \A x \in Years : YearIsTree(x)
BY DEF YearPlanIsTree, YearTreeClosed, YearCodesDistinct, YearIsTree

LEMMA LiveYearIsTree == TreeInv => LiveYearsAreTrees
<1> SUFFICES ASSUME TreeInv, NEW x \in Years, ShowsLive(x)
             PROVE  YearIsTree(x)
  BY DEF LiveYearsAreTrees
<1>1. Live \subseteq Nodes /\ Kpis \subseteq Nodes
  BY DEF Live, Stored, Nodes
<1>2. ASSUME NEW n \in Nodes \ Goals, NEW v \in Shown(n, x)
      PROVE  Active(Head(v.above), x)
  <2>1. n \in Live /\ v.above = row[n].above
    BY <1>2 DEF View, ShowsLive
  <2>2. PICK p \in Live : Under(n, p)
    BY <2>1 DEF TreeInv, LivePlanIsTree, ParentsLive
  <2>3. Shown(p, x) # {} /\ p = Head(v.above)
    BY <1>1, <2>1, <2>2 DEF Under, ShowsLive
  <2> QED
    BY <2>3, ShownIsActive
<1>3. ASSUME NEW j \in Kpis, NEW k \in Kpis, NEW v \in Shown(j, x), NEW w \in Shown(k, x),
             Home[j] = Home[k], v.suffix = w.suffix
      PROVE  j = k
  <2>1. /\ j \in Live /\ v.suffix = row[j].suffix
        /\ k \in Live /\ w.suffix = row[k].suffix
    BY <1>1, <1>3 DEF View, ShowsLive
  <2> QED
    BY <1>3, <2>1 DEF TreeInv, SuffixesDistinct
<1> QED
  BY <1>2, <1>3 DEF YearIsTree

\* A node that is in force is one of the tree's nodes.
LEMMA ActiveIsNode ==
  ASSUME NEW n, NEW x, Active(n, x)
  PROVE  n \in Nodes
BY DEF Active, Stored

LEMMA InitYearsAreTrees == Init => YearPlanIsTree
<1> SUFFICES ASSUME Init PROVE YearPlanIsTree
  OBVIOUS
<1>1. CarefulInv /\ TreeInv
  BY InitCareful, InitTree
<1>2. NowIsShown
  BY <1>1, NowIsLive
<1>3. MinYear \in Years /\ NotBefore(MinYear) /\ \A x \in Years : x >= MinYear
  BY DEF Init, NotBefore, Years
<1>4. \A x \in Years : ShowsLive(x)
  BY <1>2, <1>3 DEF NowIsShown, ShowsLive
<1> QED
  BY <1>1, <1>4, LiveYearIsTree, YearsAreTrees DEF LiveYearsAreTrees

\* A request for year y that works forward: the years before y show what they showed,
\* the others the live plan, which is a tree.
LEMMA ForwardKeepsYears ==
  ASSUME CarefulInv, TreeInv, YearPlanIsTree, NEW y \in Years, NotBefore(y), EditFor(y)
  PROVE  YearPlanIsTree'
<1>1. PICK new, type : CarefulSave(new, type, y)
  BY EditIsCareful DEF CarefulInv
<1>2. CarefulInv' /\ NotBefore(y)'
  BY <1>1, CarefulSaveKeepsInv, SaveIsNotBefore
<1>3. TreeInv'
  BY CarefulIsEdit, EditKeepsTree DEF CarefulInv
<1>4. NowIsShown' /\ LiveYearsAreTrees'
  BY <1>2, <1>3, NowIsLive, LiveYearIsTree, PTL
<1>5. ASSUME NEW x \in Years
      PROVE  YearIsTree(x)'
  <2>1. CASE x < y
    <3>1. \A n \in Nodes : Shown(n, x)' = Shown(n, x)
      BY <1>1, <2>1, SaveSparesPast
    <3>2. \A n : Active(n, x) => Active(n, x)'
      BY <3>1, ActiveIsNode, ShownIsActive
    <3>3. YearIsTree(x)
      BY YearsAreTrees
    <3>4. \A n \in Nodes \ Goals : \A v \in Shown(n, x)' : Active(Head(v.above), x)'
      BY <3>1, <3>2, <3>3 DEF YearIsTree
    <3>5. \A j \in Kpis : Shown(j, x)' = Shown(j, x)
      BY <3>1 DEF Nodes
    <3> QED
      BY <3>3, <3>4, <3>5 DEF YearIsTree
  <2>2. CASE x >= y
    <3>1. ShowsLive(x)'
      BY <1>2, <1>4, <2>2 DEF NowIsShown, ShowsLive
    <3> QED
      BY <1>4, <3>1 DEF LiveYearsAreTrees
  <2> QED
    BY <2>1, <2>2 DEF Years
<1>6. (YearPlanIsTree <=> \A x \in Years : YearIsTree(x))'
  BY YearsAreTrees, PTL
<1> QED
  BY <1>5, <1>6

-----------------------------------------------------------------------------
(* Careful administrators: the properties of the run.                      *)

\* The invariant of the scene: discipline keeps the lineages and the tree, working
\* forward also keeps every year's plan.
MCInv ==
  scene = "careful" => CarefulInv /\ TreeInv /\ (forward => YearPlanIsTree)

LEMMA NextKeepsMCInv == MCInv /\ [MCNext]_svars => MCInv'
<1> SUFFICES ASSUME MCInv, [MCNext]_svars, scene' = "careful" PROVE MCInv'
  BY DEF MCInv
<1>1. CASE MCNext
  <2>1. scene = "careful" /\ CarefulInv /\ TreeInv /\ (forward => YearPlanIsTree)
    BY <1>1 DEF MCNext, MCInv
  <2>2. PICK y \in Years : EditFor(y) /\ forward' = (forward /\ NotBefore(y))
    BY <1>1, <2>1 DEF MCNext, CarefulNext
  <2>3. PICK new, type : CarefulSave(new, type, y)
    BY <2>1, <2>2, EditIsCareful DEF CarefulInv
  <2>4. CarefulInv'
    BY <2>1, <2>3, CarefulSaveKeepsInv
  <2>5. TreeInv'
    BY <2>1, <2>2, CarefulIsEdit, EditKeepsTree DEF CarefulInv
  <2>6. forward' => YearPlanIsTree'
    <3> SUFFICES ASSUME forward /\ NotBefore(y) PROVE YearPlanIsTree'
      BY <2>2, ZenonT(30)
    <3> QED
      BY <2>1, <2>2, ForwardKeepsYears
  <2> QED
    BY <2>4, <2>5, <2>6 DEF MCInv
<1>2. CASE UNCHANGED svars
  <2>1. row' = row /\ versions' = versions /\ log' = log /\ writes' = writes
        /\ scene' = scene /\ forward' = forward
    BY <1>2 DEF svars, vars
  <2>2. CarefulInv => CarefulInv'
    BY <2>1 DEF CarefulInv, TypeOK, KpisHaveLetters, LineageOK, Stored
  <2>3. TreeInv => TreeInv'
    BY <2>1 DEF TreeInv, ParentsOfKind, LivePlanIsTree, ParentsLive, AncestorsAgree,
                SuffixesDistinct, Live, Stored, Under
  <2>4. \A n, x : Shown(n, x)' = Shown(n, x) /\ Active(n, x)' = Active(n, x)
    BY <2>1 DEF Shown, Active, Stored
  <2>5. YearPlanIsTree => YearPlanIsTree'
    BY <2>4 DEF YearPlanIsTree, YearTreeClosed, YearCodesDistinct
  <2> QED
    BY <2>1, <2>2, <2>3, <2>5 DEF MCInv
<1> QED
  BY <1>1, <1>2

LEMMA InitKeepsMCInv == MCInit => MCInv
BY InitCareful, InitTree, InitYearsAreTrees DEF MCInit, MCInv

\* Under administrators with discipline the live plan is a tree with agreeing copies
\* of the codes above and distinct letters; and while they work forward the plan that
\* every year shows is one too, past years included.
THEOREM PlansStayTrees == MCSpec => []PlansAreTrees
<1>1. MCInv => PlansAreTrees
  BY DEF MCInv, TreeInv, PlansAreTrees
<1> QED
  BY <1>1, InitKeepsMCInv, NextKeepsMCInv, PTL DEF MCSpec

\* A request of theirs that works forward changes the plan of no earlier year, and
\* after a full revision the plan is empty from its year on.
THEOREM YearsStayApart == MCSpec => YearsKeptApart
<1>1. MCInv => (scene = "careful" => PastKept /\ RevisionLeavesBlank)
  BY PastIsKept, RevisionEmpties DEF MCInv
<1>2. MCInv /\ [MCNext]_svars => [scene = "careful" => PastKept /\ RevisionLeavesBlank]_svars
  BY <1>1
<1> QED
  BY <1>2, InitKeepsMCInv, NextKeepsMCInv, PTL DEF MCSpec, YearsKeptApart

-----------------------------------------------------------------------------
(* Lists of requests.                                                      *)

\* The requests after the first k, though perhaps nobody waits for them any more, and
\* then some more.
CallFields == {"op", "node", "text", "letter", "year", "parent", "view", "typed", "fresh", "mine"}
CallShape(c) == DOMAIN c = CallFields

Same(c, d) ==
  /\ CallShape(d)
  /\ d.op = c.op /\ d.node = c.node /\ d.text = c.text /\ d.letter = c.letter /\ d.year = c.year
  /\ d.parent = c.parent /\ d.view = c.view /\ d.typed = c.typed /\ d.fresh = c.fresh

Shaped(cs) == IsList(cs) /\ \A i \in 1..Len(cs) : CallShape(cs[i])

Carries(old, k, more, new) ==
  /\ k <= Len(old) /\ IsList(new) /\ Len(new) = (Len(old) - k) + Len(more)
  /\ \A i \in 1..(Len(old) - k) : Same(old[k + i], new[i])
  /\ \A i \in 1..Len(more) : new[(Len(old) - k) + i] = more[i]

LEMMA SameBarMine ==
  ASSUME NEW c, CallShape(c), NEW b
  PROVE  Same(c, [c EXCEPT !.mine = b])
BY DEF Same, CallShape, CallFields

LEMMA ForsakenList ==
  ASSUME NEW cs, Shaped(cs), NEW ops
  PROVE  /\ Shaped(Forsaken(cs, ops)) /\ Len(Forsaken(cs, ops)) = Len(cs)
         /\ \A i \in 1..Len(cs) : Same(cs[i], Forsaken(cs, ops)[i])
<1> DEFINE new == Forsaken(cs, ops)
<1>1. Len(cs) \in Nat
  BY DEF Shaped, IsList
<1>2. new = [i \in 1..Len(cs) |-> [cs[i] EXCEPT !.mine = cs[i].mine /\ ~BusyWith(cs[i], ops)]]
  BY DEF Forsaken
<1>3. \A i \in 1..Len(cs) : Same(cs[i], new[i])
  <2> SUFFICES ASSUME NEW i \in 1..Len(cs)
               PROVE  Same(cs[i], new[i])
    OBVIOUS
  <2> DEFINE waited == cs[i].mine /\ ~BusyWith(cs[i], ops)
  <2>1. new[i] = [cs[i] EXCEPT !.mine = waited] /\ CallShape(cs[i])
    BY <1>2 DEF Shaped
  <2> HIDE DEF waited, new
  <2>2. Same(cs[i], [cs[i] EXCEPT !.mine = waited])
    BY <2>1, SameBarMine, Zenon
  <2> QED
    BY <2>1, <2>2, Zenon
<1>4. new \in Seq({new[i] : i \in 1..Len(cs)})
  <2> DEFINE S == {new[i] : i \in 1..Len(cs)}
  <2>1. \A i \in 1..Len(cs) : new[i] \in S
    OBVIOUS
  <2>2. new = [i \in 1..Len(cs) |-> new[i]]
    BY <1>2
  <2> HIDE DEF S, new
  <2>3. [i \in 1..Len(cs) |-> new[i]] \in [1..Len(cs) -> S]
    BY <2>1
  <2> QED
    BY <1>1, <2>2, <2>3, SeqDef DEF S
<1>5. IsList(new) /\ Len(new) = Len(cs)
  <2> HIDE DEF new
  <2>1. DOMAIN new = 1..Len(cs)
    BY <1>2
  <2> QED
    BY <1>1, <1>4, <2>1, SeqIsList, LenProperties
<1> HIDE DEF new
<1>6. Shaped(new)
  BY <1>3, <1>5 DEF Shaped, Same
<1> QED
  BY <1>3, <1>5, <1>6 DEF new


LEMMA CarriesKept ==
  ASSUME NEW old, NEW k \in 0..Len(old), NEW kept, IsList(kept), Len(kept) = Len(old) - k,
         \A i \in 1..Len(kept) : Same(old[k + i], kept[i]), NEW more, IsList(more)
  PROVE  Carries(old, k, more, kept \o more)
<1>1. IsList(kept \o more)
  BY ConcatList
<1>2. Len(kept \o more) = Len(kept) + Len(more)
  BY ConcatList
<1>3. \A i \in 1..Len(kept) : (kept \o more)[i] = kept[i]
  BY ConcatList
<1>4. \A i \in 1..Len(more) : (kept \o more)[Len(kept) + i] = more[i]
  BY ConcatList
<1> QED
  BY <1>1, <1>2, <1>3, <1>4 DEF Carries

LEMMA SameAsItself ==
  ASSUME NEW c, CallShape(c)
  PROVE  Same(c, c)
BY DEF Same

\* calls' after an action that sends more, and after one that answers the first request.
LEMMA SentAfter ==
  ASSUME Shaped(calls), NEW more, IsList(more)
  PROVE  /\ Carries(calls, 0, more, calls \o more)
         /\ \A ops : Carries(calls, 0, more, Forsaken(calls, ops) \o more)
<1>1. IsList(calls) /\ Len(calls) \in Nat /\ \A i \in 1..Len(calls) : Same(calls[0 + i], calls[i])
  BY SameAsItself DEF Shaped, IsList
<1>2. Carries(calls, 0, more, calls \o more)
  BY <1>1, CarriesKept
<1>3. ASSUME NEW ops
      PROVE  Carries(calls, 0, more, Forsaken(calls, ops) \o more)
  <2>1. /\ IsList(Forsaken(calls, ops)) /\ Len(Forsaken(calls, ops)) = Len(calls) - 0
        /\ \A i \in 1..Len(Forsaken(calls, ops)) : Same(calls[0 + i], Forsaken(calls, ops)[i])
    BY <1>1, ForsakenList DEF Shaped
  <2> QED
    BY <2>1, CarriesKept
<1> QED
  BY <1>2, <1>3

LEMMA RestIsShaped ==
  ASSUME Shaped(calls), calls # <<>>
  PROVE  /\ Len(calls) \in Nat \ {0} /\ CallShape(First1) /\ Shaped(Rest) /\ Len(Rest) = Len(calls) - 1
         /\ \A i \in 1..(Len(calls) - 1) : Rest[i] = calls[1 + i]
<1>1. /\ Len(calls) \in Nat \ {0} /\ IsList(Rest) /\ Len(Rest) = Len(calls) - 1
      /\ \A i \in 1..(Len(calls) - 1) : Rest[i] = calls[i + 1]
  BY TailList DEF Rest, Shaped
<1>2. \A i \in 1..(Len(calls) - 1) : i + 1 \in 1..Len(calls) /\ Rest[i] = calls[1 + i]
  BY <1>1
<1>3. CallShape(First1)
  BY <1>1 DEF First1, Shaped
<1> QED
  BY <1>1, <1>2, <1>3 DEF Shaped

LEMMA AnsweredAfter ==
  ASSUME Shaped(calls), calls # <<>>, NEW more, IsList(more)
  PROVE  /\ Carries(calls, 1, more, Rest \o more)
         /\ \A ops : Carries(calls, 1, more, Forsaken(Rest, ops) \o more)
<1>1. /\ Len(calls) \in Nat \ {0} /\ Shaped(Rest) /\ Len(Rest) = Len(calls) - 1
      /\ \A i \in 1..(Len(calls) - 1) : Rest[i] = calls[1 + i]
  BY RestIsShaped
<1>2. IsList(Rest) /\ \A i \in 1..Len(Rest) : CallShape(Rest[i]) /\ Same(calls[1 + i], Rest[i])
  BY <1>1, SameAsItself DEF Shaped
<1>3. Carries(calls, 1, more, Rest \o more)
  BY <1>1, <1>2, CarriesKept
<1>4. ASSUME NEW ops
      PROVE  Carries(calls, 1, more, Forsaken(Rest, ops) \o more)
  <2>1. /\ IsList(Forsaken(Rest, ops)) /\ Len(Forsaken(Rest, ops)) = Len(calls) - 1
        /\ \A i \in 1..Len(Rest) : Same(Rest[i], Forsaken(Rest, ops)[i])
    BY <1>1, ForsakenList DEF Shaped
  <2>2. \A i \in 1..Len(Forsaken(Rest, ops)) : Same(calls[1 + i], Forsaken(Rest, ops)[i])
    BY <1>1, <2>1
  <2> QED
    BY <1>1, <2>1, <2>2, CarriesKept
<1> QED
  BY <1>3, <1>4

\* Nothing more is sent.
LEMMA NothingMore ==
  ASSUME NEW s, IsList(s)
  PROVE  s \o <<>> = s
<1> DEFINE S == {s[i] : i \in 1..Len(s)}
<1>1. s \in Seq(S)
  <2>1. \A i \in 1..Len(s) : s[i] \in S
    OBVIOUS
  <2> HIDE DEF S
  <2> QED
    BY <2>1, ListIsSeq
<1> HIDE DEF S
<1> QED
  BY <1>1, ConcatEmptySeq


-----------------------------------------------------------------------------
(* Types.                                                                  *)

\* What an editor holds and what it sends.
EditOK(n, e) == e.text \in [Fields(n) -> Nat] /\ e.letter \in Letters \cup {NULL}

\* A request the page can have sent, in a plot that tries some operations.
CallOK(p, c) ==
  /\ CallShape(c)
  /\ c.op \in EditorOps => c.node \in Nodes /\ c.year \in Years /\ EditOK(c.node, c)
  /\ c.op = "create" => /\ c.node \in Nodes /\ c.year \in Years /\ c.text \in [AllFields -> Nat]
                        /\ c.node \in Goals \/ c.parent \in Nodes
  /\ c.op = "revise" => c.year \in Years /\ c.view = NULL
  /\ c.op = "rollback" => "rollback" \in p.may["changes"]
  /\ c.fresh => c.op \in EditorOps
  /\ c.view \in Years \cup {NULL}

ListOK(p, cs) == IsList(cs) /\ \A i \in 1..Len(cs) : CallOK(p, cs[i])

NodesOK(shown) ==
  /\ DOMAIN shown \subseteq Nodes
  /\ \A n \in DOMAIN shown : shown[n].name \in Names /\ shown[n].suffix \in Letters \cup {NULL}

DraftShape(d) == DOMAIN d = {"text", "letter", "typed", "fresh"}

DraftOK ==
  draft # NULL => /\ openNode \in Nodes /\ openNode \in DOMAIN planTree.nodes
                  /\ DraftShape(draft) /\ EditOK(openNode, draft)

ShownOK ==
  /\ viewYear \in Years \cup {NULL} /\ steps \in Nat
  /\ planTree # NULL => NodesOK(planTree.nodes)
  /\ openNode \in Nodes \cup {NULL} /\ (openNode # NULL => pageTab \in {"structure", "kpi"})
  /\ DraftOK
  /\ dialog # NULL => pageTab \in {"structure", "kpi"} /\ dialog \in Nodes \cup {"goal"}

PageInv == ShownOK /\ ListOK(plot, calls)

\* The plan under the page.
FiniteVersions == \A n \in Nodes : IsFiniteSet(versions[n])
PlanInv == HistoryInv /\ FiniteVersions

LEMMA FieldsAreFields ==
  ASSUME NEW n \in Nodes
  PROVE  Fields(n) \subseteq AllFields
BY DEF AllFields

LEMMA TreeOfPlan ==
  ASSUME PlanInv, NEW y \in Years \cup {NULL}
  PROVE  NodesOK(TreeOf(y).nodes)
<1> DEFINE here == {n \in Stored : IF y = NULL THEN n \in Live ELSE Active(n, y)}
           Seen(n) == IF y = NULL THEN View(row[n]) ELSE CHOOSE v \in Shown(n, y) : TRUE
<1>1. TreeOf(y).nodes = [n \in here |-> Seen(n)]
  BY DEF TreeOf
<1>2. \A r \in Row : View(r).name \in Names /\ View(r).suffix \in Letters \cup {NULL}
  BY DEF View, Row
<1>3. here \subseteq Nodes
  BY DEF Stored
<1>4. ASSUME NEW n \in here
      PROVE  \E r \in Row : Seen(n) = View(r)
  <2>1. n \in Nodes /\ row[n] \in Row
    BY <1>4, StoredRow DEF PlanInv, HistoryInv
  <2>2. CASE y = NULL
    BY <2>1, <2>2
  <2>3. CASE y # NULL
    <3>1. Active(n, y) /\ y \in Years
      BY <1>4, <2>3
    <3>2. versions[n] \in SUBSET Version(Row) /\ IsFiniteSet(versions[n])
      BY <2>1 DEF PlanInv, HistoryInv, TypeOK, FiniteVersions
    <3>3. Shown(n, y) # {}
      BY <2>1, <3>1, ShownIsActive
    <3>4. PICK v \in Shown(n, y) : Seen(n) = v
      BY <2>3, <3>3
    <3>5. OverlayPayload(versions[n], y) \subseteq Row
      BY <3>2 DEF OverlayPayload, First, Version
    <3>6. \E r \in Row : v = View(r)
      BY <2>1, <3>1, <3>4, <3>5 DEF Shown
    <3> QED
      BY <3>4, <3>6
  <2> QED
    BY <2>2, <2>3
<1> HIDE DEF here, Seen
<1>5. \A n \in here : Seen(n).name \in Names /\ Seen(n).suffix \in Letters \cup {NULL}
  BY <1>2, <1>4
<1> QED
  BY <1>1, <1>3, <1>5 DEF NodesOK

\* A step of the plan keeps it.
LEMMA SaveKeepsFinite ==
  ASSUME PlanInv, NEW new, NEW type, NEW y \in Years, MaySave(new, type), Save(new, type, y)
  PROVE  FiniteVersions'
<1> SUFFICES ASSUME NEW n \in Nodes
             PROVE  IsFiniteSet(versions'[n])
  BY DEF FiniteVersions
<1>1. versions[n] \in SUBSET Version(Row) /\ IsFiniteSet(versions[n])
  BY DEF PlanInv, HistoryInv, TypeOK, FiniteVersions
<1>2. CASE n \in DOMAIN new
  <2>1. versions'[n] = WriteVersion(versions[n], writes + 1, y, type[n],
                                    IF type[n] = "abolish" THEN row[n] ELSE new[n], row[n])
    BY <1>2 DEF Save
  <2> QED
    BY <1>1, <2>1, WriteVersionFinite
<1>3. CASE n \notin DOMAIN new
  BY <1>1, <1>3 DEF Save
<1> QED
  BY <1>2, <1>3

LEMMA InitPlan == Init => PlanInv
BY InitHistory, FS_EmptySet DEF Init, PlanInv, FiniteVersions

LEMMA NextPlan == PlanInv /\ [Next]_vars => PlanInv'
<1> SUFFICES ASSUME PlanInv, [Next]_vars PROVE PlanInv'
  OBVIOUS
<1>1. HistoryInv'
  BY NextHistory DEF PlanInv
<1>2. CASE Next
  <2>1. TypeOK /\ KpisHaveLetters
    BY DEF PlanInv, HistoryInv
  <2>2. ASSUME NEW t \in Tasks, NEW given \in SUBSET Subtasks, NEW name \in Names,
               ReplaceSubtasks(t, given, name)
        PROVE  FiniteVersions'
    BY <2>2 DEF ReplaceSubtasks, PlanInv, FiniteVersions
  <2> QED
    BY <1>1, <1>2, <2>1, <2>2, NextSaves, SaveKeepsFinite DEF PlanInv
<1>3. CASE UNCHANGED vars
  BY <1>1, <1>3 DEF vars, PlanInv, FiniteVersions
<1> QED
  BY <1>2, <1>3


-----------------------------------------------------------------------------
(* What the page sends.                                                    *)

\* A request that reads, or that writes neither the tree nor the page: a fund that is
\* moved is one of the list, with its next.
Plain(y, c) ==
  /\ CallShape(c) /\ ~c.fresh /\ c.view = y
  /\ c.op \in {"load", "revisions", "funds", "target", "fund", "move"}
  /\ c.op = "fund" => c.year \in Years
  /\ c.op = "move" => /\ c.node \in 1..(Len(fundList) - 1)
                      /\ c.text = <<fundList[c.node], fundList[c.node + 1]>>

AllPlain(y, cs) == IsList(cs) /\ \A i \in 1..Len(cs) : Plain(y, cs[i])

LEMMA PlainIsOK ==
  ASSUME NEW p, NEW y \in Years \cup {NULL}, NEW cs, AllPlain(y, cs)
  PROVE  ListOK(p, cs)
BY DEF AllPlain, Plain, ListOK, CallOK, EditorOps

LEMMA EditorCallIs ==
  ASSUME NEW op, NEW y
  PROVE  LET c == EditorCall(op, y)
         IN /\ CallShape(c) /\ c.op = op /\ c.year = y /\ c.view = viewYear /\ c.node = openNode
            /\ c.text = draft.text /\ c.letter = draft.letter /\ c.typed = draft.typed
            /\ (c.fresh <=> draft.fresh)
BY DEF EditorCall, Asked, CallShape, CallFields

Sends(k, more) == IsList(more) /\ Carries(calls, k, more, calls') /\ plot' = plot

SendsPlain(k, y) == \E more : Sends(k, more) /\ AllPlain(y, more)

LEMMA PlainLists ==
  ASSUME NEW y, NEW c, Plain(y, c), NEW d, Plain(y, d)
  PROVE  AllPlain(y, <<>>) /\ AllPlain(y, <<c>>) /\ AllPlain(y, <<c, d>>)
<1>1. AllPlain(y, <<>>)
  BY EmptyList DEF AllPlain
<1>2. AllPlain(y, <<c>>)
  <2>1. IsList(<<c>>) /\ Len(<<c>>) = 1 /\ <<c>>[1] = c
    BY ShortLists
  <2> QED
    BY <2>1 DEF AllPlain
<1>3. AllPlain(y, <<c, d>>)
  <2>1. IsList(<<c, d>>) /\ Len(<<c, d>>) = 2 /\ <<c, d>>[1] = c /\ <<c, d>>[2] = d
    BY ShortLists
  <2>2. \A i \in 1..2 : i = 1 \/ i = 2
    OBVIOUS
  <2> QED
    BY <2>1, <2>2 DEF AllPlain
<1> QED
  BY <1>1, <1>2, <1>3

LEMMA PlainConcat ==
  ASSUME NEW y, NEW s, AllPlain(y, s), NEW t, AllPlain(y, t)
  PROVE  AllPlain(y, s \o t)
<1>1. IsList(s) /\ IsList(t) /\ Len(s) \in Nat /\ Len(t) \in Nat
  BY DEF AllPlain, IsList
<1>2. IsList(s \o t)
  BY <1>1, ConcatList
<1>3. Len(s \o t) = Len(s) + Len(t)
  BY <1>1, ConcatList
<1>4. \A i \in 1..Len(s) : (s \o t)[i] = s[i]
  BY <1>1, ConcatList
<1>5. \A i \in 1..Len(t) : (s \o t)[Len(s) + i] = t[i]
  BY <1>1, ConcatList
<1>6. ASSUME NEW i \in 1..Len(s \o t)
      PROVE  Plain(y, (s \o t)[i])
  <2>1. CASE i <= Len(s)
    BY <1>1, <1>3, <1>4, <2>1 DEF AllPlain
  <2>2. CASE i > Len(s)
    <3>1. i - Len(s) \in 1..Len(t) /\ i = Len(s) + (i - Len(s))
      BY <1>1, <1>3, <2>2
    <3> QED
      BY <1>5, <3>1 DEF AllPlain
  <2> QED
    BY <1>1, <1>3, <2>1, <2>2
<1> QED
  BY <1>2, <1>6 DEF AllPlain

\* The requests that are left have not changed, so all are still in order.
LEMMA SendsOK ==
  ASSUME ListOK(plot, calls), NEW k \in Nat, NEW more, Sends(k, more), ListOK(plot, more)
  PROVE  ListOK(plot, calls)'
<1>1. /\ k <= Len(calls) /\ IsList(calls') /\ Len(calls') = (Len(calls) - k) + Len(more)
      /\ Len(calls) \in Nat /\ Len(more) \in Nat /\ plot' = plot
  BY DEF Sends, Carries, ListOK, IsList
<1>2. ASSUME NEW i \in 1..Len(calls')
      PROVE  CallOK(plot, calls'[i])
  <2>1. CASE i <= Len(calls) - k
    <3>1. k + i \in 1..Len(calls) /\ Same(calls[k + i], calls'[i])
      BY <1>1, <2>1 DEF Sends, Carries
    <3>2. CallOK(plot, calls[k + i])
      BY <3>1 DEF ListOK
    <3> QED
      BY <3>1, <3>2 DEF Same, CallOK, EditOK
  <2>2. CASE i > Len(calls) - k
    <3>1. /\ i - (Len(calls) - k) \in 1..Len(more)
          /\ i = (Len(calls) - k) + (i - (Len(calls) - k))
      BY <1>1, <2>2
    <3>2. calls'[i] = more[i - (Len(calls) - k)]
      BY <3>1 DEF Sends, Carries
    <3> QED
      BY <3>1, <3>2 DEF ListOK
  <2> QED
    BY <1>1, <2>1, <2>2
<1> QED
  BY <1>1, <1>2 DEF ListOK

LEMMA SendsPlainOK ==
  ASSUME ListOK(plot, calls), NEW k \in Nat, NEW y \in Years \cup {NULL}, SendsPlain(k, y)
  PROVE  ListOK(plot, calls)'
<1>1. PICK more : Sends(k, more) /\ AllPlain(y, more)
  BY DEF SendsPlain
<1>2. ListOK(plot, more)
  BY <1>1, PlainIsOK
<1> QED
  BY <1>1, <1>2, SendsOK

LEMMA ListIsShaped ==
  ASSUME ListOK(plot, calls)
  PROVE  Shaped(calls)
BY DEF ListOK, CallOK, Shaped


\* The actions, by what they send.
LEMMA KeepsCalls ==
  ASSUME Shaped(calls), plot' = plot,
         calls' = calls \/ \E ops : calls' = Forsaken(calls, ops), NEW y
  PROVE  SendsPlain(0, y)
<1>1. IsList(<<>>) /\ AllPlain(y, <<>>)
  BY EmptyList DEF AllPlain
<1>2. Carries(calls, 0, <<>>, calls \o <<>>) /\ calls \o <<>> = calls
  BY <1>1, SentAfter, NothingMore DEF Shaped
<1>3. ASSUME NEW ops
      PROVE  Carries(calls, 0, <<>>, Forsaken(calls, ops))
  <2>1. Shaped(Forsaken(calls, ops))
    BY ForsakenList
  <2>2. Forsaken(calls, ops) \o <<>> = Forsaken(calls, ops)
    BY <2>1, NothingMore DEF Shaped
  <2> QED
    BY <1>1, <2>2, SentAfter
<1>4. Carries(calls, 0, <<>>, calls')
  BY <1>2, <1>3
<1> QED
  BY <1>1, <1>4 DEF SendsPlain, Sends

LEMMA EmitsPlain ==
  ASSUME Shaped(calls), plot' = plot, NEW y, NEW more, AllPlain(y, more),
         calls' = calls \o more \/ \E ops : calls' = Forsaken(calls, ops) \o more
  PROVE  SendsPlain(0, y)
<1>1. IsList(more)
  BY DEF AllPlain
<1>2. Carries(calls, 0, more, calls')
  BY <1>1, SentAfter
<1> QED
  BY <1>1, <1>2 DEF SendsPlain, Sends

LEMMA AnswersPlain ==
  ASSUME Shaped(calls), calls # <<>>, plot' = plot, NEW y, NEW more, AllPlain(y, more),
         calls' = Rest \o more \/ \E ops : calls' = Forsaken(Rest, ops) \o more
  PROVE  SendsPlain(1, y)
<1>1. IsList(more)
  BY DEF AllPlain
<1>2. Carries(calls, 1, more, calls')
  BY <1>1, AnsweredAfter
<1> QED
  BY <1>1, <1>2 DEF SendsPlain, Sends

LEMMA AnswersOnly ==
  ASSUME Shaped(calls), calls # <<>>, plot' = plot, NEW y,
         calls' = Rest \/ \E ops : calls' = Forsaken(Rest, ops)
  PROVE  SendsPlain(1, y)
<1>1. AllPlain(y, <<>>) /\ Shaped(Rest)
  BY EmptyList, RestIsShaped DEF AllPlain
<1>2. Rest \o <<>> = Rest
  BY <1>1, NothingMore DEF Shaped
<1>3. ASSUME NEW ops
      PROVE  Forsaken(Rest, ops) \o <<>> = Forsaken(Rest, ops)
  <2>1. Shaped(Forsaken(Rest, ops))
    BY <1>1, ForsakenList
  <2> QED
    BY <2>1, NothingMore DEF Shaped
<1> QED
  BY <1>1, <1>2, <1>3, AnswersPlain

\* A load that answers a request, and the requests of the cells and the funds.
Reload(op, y, node, mine) == [LoadOf(op, y) EXCEPT !.node = node, !.mine = mine]
ReloadOf(op, y, mine) == [LoadOf(op, y) EXCEPT !.mine = mine]
LoadAfter(op, y, node) == [LoadOf(op, y) EXCEPT !.node = node]
Writes(op, node, text) == [Asked(op) EXCEPT !.node = node, !.text = text]
WritesFor(op, node, y, text) == [Asked(op) EXCEPT !.node = node, !.year = y, !.text = text]

LEMMA LoadIsPlain ==
  ASSUME NEW op \in {"load", "revisions", "funds"}, NEW y, NEW node, NEW mine
  PROVE  /\ Plain(y, LoadOf(op, y)) /\ Plain(y, Reload(op, y, node, mine))
         /\ Plain(y, ReloadOf(op, y, mine)) /\ Plain(y, LoadAfter(op, y, node))
<1>1. Plain(y, LoadOf(op, y))
  BY DEF LoadOf, Asked, Plain, CallShape, CallFields
<1>2. Plain(y, Reload(op, y, node, mine))
  BY DEF Reload, LoadOf, Asked, Plain, CallShape, CallFields
<1>3. Plain(y, ReloadOf(op, y, mine))
  BY DEF ReloadOf, LoadOf, Asked, Plain, CallShape, CallFields
<1>4. Plain(y, LoadAfter(op, y, node))
  BY DEF LoadAfter, LoadOf, Asked, Plain, CallShape, CallFields
<1> QED
  BY <1>1, <1>2, <1>3, <1>4

LEMMA WritesIsPlain ==
  ASSUME NEW y, NEW node, NEW text
  PROVE  /\ Plain(viewYear, Writes("target", node, text))
         /\ y \in Years => Plain(viewYear, WritesFor("fund", node, y, text))
         /\ node \in 1..(Len(fundList) - 1) =>
              Plain(viewYear, Writes("move", node, <<fundList[node], fundList[node + 1]>>))
<1>1. Plain(viewYear, Writes("target", node, text))
  BY DEF Writes, Asked, Plain, CallShape, CallFields
<1>2. y \in Years => Plain(viewYear, WritesFor("fund", node, y, text))
  BY DEF WritesFor, Asked, Plain, CallShape, CallFields
<1>3. ASSUME node \in 1..(Len(fundList) - 1), NEW two, two = <<fundList[node], fundList[node + 1]>>
      PROVE  Plain(viewYear, Writes("move", node, two))
  BY <1>3 DEF Writes, Asked, Plain, CallShape, CallFields
<1> QED
  BY <1>1, <1>2, <1>3

LEMMA LoadLists ==
  ASSUME NEW op \in {"load", "revisions", "funds"}, NEW y, NEW b
  PROVE  AllPlain(y, IF b THEN <<LoadOf(op, y)>> ELSE <<>>)
BY LoadIsPlain, PlainLists

LEMMA PlainEmissions ==
  ASSUME Shaped(calls)
  PROVE  /\ \A n : ToggleEditor(n) => SendsPlain(0, viewYear')
         /\ \A f : Type(f) => SendsPlain(0, viewYear')
         /\ \A l : TypeLetter(l) => SendsPlain(0, viewYear')
         /\ \A p : OpenDialog(p) => SendsPlain(0, viewYear')
         /\ CloseDialog => SendsPlain(0, viewYear')
         /\ \A v : LeaveCell(v) => SendsPlain(0, viewYear')
         /\ \A t : ChangeTab(t) => SendsPlain(0, viewYear')
         /\ \A y : LookUp(y) => SendsPlain(0, viewYear')
         /\ \A f, y : y \in Years /\ ChangeFund(f, y) => SendsPlain(0, viewYear')
         /\ \A i : MoveFund(i) => SendsPlain(0, viewYear')
<1>1. ASSUME NEW n, ToggleEditor(n) PROVE SendsPlain(0, viewYear')
  BY <1>1, KeepsCalls DEF ToggleEditor, Try
<1>2. ASSUME NEW f, Type(f) PROVE SendsPlain(0, viewYear')
  BY <1>2, KeepsCalls DEF Type, Try
<1>3. ASSUME NEW l, TypeLetter(l) PROVE SendsPlain(0, viewYear')
  BY <1>3, KeepsCalls DEF TypeLetter, Try
<1>4. ASSUME NEW p, OpenDialog(p) PROVE SendsPlain(0, viewYear')
  BY <1>4, KeepsCalls DEF OpenDialog, Try
<1>5. CloseDialog => SendsPlain(0, viewYear')
  BY KeepsCalls DEF CloseDialog
<1>6. ASSUME NEW v, LeaveCell(v) PROVE SendsPlain(0, viewYear')
  <2> DEFINE c == Writes("target", openNode, v)
  <2>1. plot' = plot /\ viewYear' = viewYear /\ (calls' = calls \/ calls' = calls \o <<c>>)
    BY <1>6 DEF LeaveCell, Try, page, Emit, Writes
  <2>2. Plain(viewYear, c)
    BY WritesIsPlain
  <2> HIDE DEF c
  <2>3. AllPlain(viewYear, <<c>>)
    BY <2>2, PlainLists
  <2> QED
    BY <2>1, <2>3, KeepsCalls, EmitsPlain
<1>7. ASSUME NEW t, ChangeTab(t) PROVE SendsPlain(0, viewYear')
  <2> DEFINE more == IF t = "funds" THEN <<LoadOf("funds", viewYear)>> ELSE <<>>
  <2>1. plot' = plot /\ viewYear' = viewYear /\ calls' = Forsaken(calls, ManagerOps) \o more
    BY <1>7 DEF ChangeTab, Try
  <2>2. AllPlain(viewYear, more)
    BY LoadLists
  <2> HIDE DEF more
  <2> QED
    BY <2>1, <2>2, EmitsPlain
<1>8. ASSUME NEW y, LookUp(y) PROVE SendsPlain(0, viewYear')
  <2> DEFINE two == <<LoadOf("load", y), LoadOf("revisions", y)>>
             third == IF pageTab = "funds" THEN <<LoadOf("funds", y)>> ELSE <<>>
  <2>1. plot' = plot /\ viewYear' = y /\ calls' = calls \o (two \o third)
    BY <1>8 DEF LookUp, Try, Emit
  <2>2. AllPlain(y, two) /\ AllPlain(y, third)
    BY LoadIsPlain, PlainLists, LoadLists
  <2> HIDE DEF two, third
  <2>3. AllPlain(y, two \o third)
    BY <2>2, PlainConcat
  <2> QED
    BY <2>1, <2>3, EmitsPlain
<1>9. ASSUME NEW f, NEW y \in Years, ChangeFund(f, y) PROVE SendsPlain(0, viewYear')
  <2> DEFINE goes == f \in ToSet(fundList) /\ fundRow[f].abolished = NULL
             c == WritesFor("fund", f, y, goes)
  <2>1. plot' = plot /\ viewYear' = viewYear /\ calls' = calls \o <<c>>
    BY <1>9 DEF ChangeFund, Try, page, Emit, WritesFor
  <2> HIDE DEF goes
  <2>2. Plain(viewYear, c)
    BY WritesIsPlain
  <2> HIDE DEF c
  <2>3. AllPlain(viewYear, <<c>>)
    BY <2>2, PlainLists
  <2> QED
    BY <2>1, <2>3, EmitsPlain
<1>10. ASSUME NEW i, MoveFund(i) PROVE SendsPlain(0, viewYear')
  <2> DEFINE c == Writes("move", i, <<fundList[i], fundList[i + 1]>>)
  <2>1. plot' = plot /\ viewYear' = viewYear /\ calls' = calls \o <<c>>
    BY <1>10 DEF MoveFund, Try, page, Emit, Writes
  <2>2. Plain(viewYear, c)
    BY <1>10, WritesIsPlain DEF MoveFund
  <2> HIDE DEF c
  <2>3. AllPlain(viewYear, <<c>>)
    BY <2>2, PlainLists
  <2> QED
    BY <2>1, <2>3, EmitsPlain
<1> QED
  BY <1>1, <1>2, <1>3, <1>4, <1>5, <1>6, <1>7, <1>8, <1>9, <1>10


LEMMA ReloadIsPlain ==
  ASSUME Shaped(calls), calls # <<>>, plot' = plot, ThenReload
  PROVE  SendsPlain(1, First1.view)
<1> DEFINE c == Reload("load", First1.view, First1.op, First1.mine)
<1>1. calls' = Append(Rest, c) /\ IsList(Rest)
  BY RestIsShaped DEF ThenReload, Reload, Shaped
<1>2. AllPlain(First1.view, <<c>>)
  BY LoadIsPlain, PlainLists
<1> HIDE DEF c
<1>3. calls' = Rest \o <<c>>
  BY <1>1, AppendList
<1> QED
  BY <1>2, <1>3, AnswersPlain

LEMMA PlainAnswers ==
  ASSUME Shaped(calls)
  PROVE  /\ TreeArrives => SendsPlain(1, viewYear')
         /\ RevisionsArrive => SendsPlain(1, viewYear')
         /\ FundsArrive => SendsPlain(1, viewYear')
         /\ TargetSaved => SendsPlain(1, viewYear')
         /\ FundHalfMoved => SendsPlain(1, viewYear')
         /\ CallFails => SendsPlain(1, viewYear')
         /\ EditSaved => SendsPlain(1, First1.view)
         /\ NodeAbolished => SendsPlain(1, First1.view)
         /\ NodeCreated => SendsPlain(1, First1.view)
         /\ RolledBack => SendsPlain(1, First1.view)
         /\ FundChanged => SendsPlain(1, First1.view)
         /\ FundMoved => SendsPlain(1, First1.view)
         /\ Revised => SendsPlain(1, NULL)
<1>1. ASSUME TreeArrives PROVE SendsPlain(1, viewYear')
  <2> DEFINE kept == openNode # NULL /\ Hangs(TreeOf(First1.view), openNode)
             more == IF broken /\ pageTab = "funds" THEN <<LoadOf("funds", viewYear)>> ELSE <<>>
  <2>1. /\ calls # <<>> /\ plot' = plot /\ viewYear' = viewYear
        /\ calls' = (IF kept THEN Rest ELSE Forsaken(Rest, EditorOps)) \o more
    BY <1>1 DEF TreeArrives, Answers
  <2>2. AllPlain(viewYear, more)
    BY LoadLists
  <2> HIDE DEF more, kept
  <2>3. calls' = Rest \o more \/ calls' = Forsaken(Rest, EditorOps) \o more
    BY <2>1
  <2> QED
    BY <2>1, <2>2, <2>3, AnswersPlain
<1>2. ASSUME RevisionsArrive PROVE SendsPlain(1, viewYear')
  BY <1>2, AnswersOnly DEF RevisionsArrive, Answers
<1>3. ASSUME FundsArrive PROVE SendsPlain(1, viewYear')
  BY <1>3, AnswersOnly DEF FundsArrive, Answers
<1>4. ASSUME TargetSaved PROVE SendsPlain(1, viewYear')
  BY <1>4, AnswersOnly DEF TargetSaved, Answers
<1>5. ASSUME FundHalfMoved PROVE SendsPlain(1, viewYear')
  BY <1>5, AnswersOnly DEF FundHalfMoved, Answers
<1>6. ASSUME CallFails PROVE SendsPlain(1, viewYear')
  <2>1. calls # <<>> /\ plot' = plot /\ (calls' = Rest \/ calls' = Forsaken(Rest, ManagerOps))
    BY <1>6 DEF CallFails
  <2> QED
    BY <2>1, AnswersOnly
<1>7. EditSaved => SendsPlain(1, First1.view)
  BY ReloadIsPlain DEF EditSaved, Answers
<1>8. NodeAbolished => SendsPlain(1, First1.view)
  BY ReloadIsPlain DEF NodeAbolished, Answers
<1>9. NodeCreated => SendsPlain(1, First1.view)
  BY ReloadIsPlain DEF NodeCreated, Answers
<1>10. RolledBack => SendsPlain(1, First1.view)
  BY ReloadIsPlain DEF RolledBack, Answers
<1>11. ASSUME FundChanged \/ FundMoved PROVE SendsPlain(1, First1.view)
  <2> DEFINE c == ReloadOf("funds", First1.view, First1.mine)
  <2>1. calls # <<>> /\ plot' = plot /\ calls' = Append(Rest, c)
    BY <1>11 DEF FundChanged, FundMoved, Answers, ReloadOf
  <2>2. AllPlain(First1.view, <<c>>) /\ IsList(Rest)
    BY <2>1, LoadIsPlain, PlainLists, RestIsShaped DEF Shaped
  <2> HIDE DEF c
  <2>3. calls' = Rest \o <<c>>
    BY <2>1, <2>2, AppendList
  <2> QED
    BY <2>1, <2>2, <2>3, AnswersPlain
<1>12. ASSUME Revised PROVE SendsPlain(1, NULL)
  <2> DEFINE two == <<LoadOf("revisions", NULL), LoadAfter("load", NULL, "revise")>>
  <2>1. calls # <<>> /\ plot' = plot /\ calls' = Rest \o two
    BY <1>12 DEF Revised, Answers, LoadAfter
  <2>2. AllPlain(NULL, two)
    BY LoadIsPlain, PlainLists
  <2> HIDE DEF two
  <2> QED
    BY <2>1, <2>2, AnswersPlain
<1> QED
  BY <1>1, <1>2, <1>3, <1>4, <1>5, <1>6, <1>7, <1>8, <1>9, <1>10, <1>11, <1>12

\* The requests that write the plan.
CreateCall(n, y) ==
  [Asked("create") EXCEPT !.node = n, !.parent = dialog, !.year = y,
                          !.text = [f \in AllFields |-> steps + 1]]
ReviseCall(y) == [Asked("revise") EXCEPT !.year = y, !.node = pageTab]
RollBackCall(e) == [Asked("rollback") EXCEPT !.node = e]

LEMMA CreateCallIs ==
  ASSUME NEW n, NEW y
  PROVE  LET c == CreateCall(n, y)
         IN /\ CallShape(c) /\ c.op = "create" /\ c.node = n /\ c.parent = dialog /\ c.year = y
            /\ c.text = [f \in AllFields |-> steps + 1] /\ c.view = viewYear /\ ~c.fresh
BY DEF CreateCall, Asked, CallShape, CallFields

LEMMA OtherCallsAre ==
  ASSUME NEW y, NEW e
  PROVE  /\ LET c == ReviseCall(y)
            IN CallShape(c) /\ c.op = "revise" /\ c.year = y /\ c.view = viewYear /\ ~c.fresh
         /\ LET c == RollBackCall(e)
            IN CallShape(c) /\ c.op = "rollback" /\ c.view = viewYear /\ ~c.fresh
BY DEF ReviseCall, RollBackCall, Asked, CallShape, CallFields

LEMMA EmitsOne ==
  ASSUME Shaped(calls), plot' = plot, NEW c, calls' = calls \o <<c>>
  PROVE  Sends(0, <<c>>)
BY ShortLists, SentAfter DEF Sends

LEMMA PlanEmissions ==
  ASSUME Shaped(calls)
  PROVE  /\ \A y : SaveEditor(y) => Sends(0, <<EditorCall("update", y)>>)
         /\ \A y : AbolishOpen(y) => Sends(0, <<EditorCall("abolish", y)>>)
         /\ \A n, y : SubmitDialog(n, y) => Sends(0, <<CreateCall(n, y)>>)
         /\ \A y : AskRevision(y) => Sends(0, <<ReviseCall(y)>>)
         /\ \A e : RollBack(e) => Sends(0, <<RollBackCall(e)>>)
<1>1. ASSUME NEW y, SaveEditor(y) PROVE Sends(0, <<EditorCall("update", y)>>)
  BY <1>1, EmitsOne DEF SaveEditor, Try, Emit
<1>2. ASSUME NEW y, AbolishOpen(y) PROVE Sends(0, <<EditorCall("abolish", y)>>)
  BY <1>2, EmitsOne DEF AbolishOpen, Try, Emit
<1>3. ASSUME NEW n, NEW y, SubmitDialog(n, y) PROVE Sends(0, <<CreateCall(n, y)>>)
  <2>1. plot' = plot /\ calls' = calls \o <<CreateCall(n, y)>>
    BY <1>3 DEF SubmitDialog, Try, Emit, CreateCall
  <2> QED
    BY <2>1, EmitsOne
<1>4. ASSUME NEW y, AskRevision(y) PROVE Sends(0, <<ReviseCall(y)>>)
  <2>1. plot' = plot /\ calls' = calls \o <<ReviseCall(y)>>
    BY <1>4 DEF AskRevision, Try, Emit, ReviseCall
  <2> QED
    BY <2>1, EmitsOne
<1>5. ASSUME NEW e, RollBack(e) PROVE Sends(0, <<RollBackCall(e)>>)
  <2>1. plot' = plot /\ calls' = calls \o <<RollBackCall(e)>>
    BY <1>5 DEF RollBack, Try, Emit, RollBackCall
  <2> QED
    BY <2>1, EmitsOne
<1> QED
  BY <1>1, <1>2, <1>3, <1>4, <1>5


LEMMA OneIsOK ==
  ASSUME NEW p, NEW c, CallOK(p, c)
  PROVE  ListOK(p, <<c>>)
<1>1. IsList(<<c>>) /\ Len(<<c>>) = 1 /\ <<c>>[1] = c
  BY ShortLists
<1> QED
  BY <1>1 DEF ListOK

LEMMA EditorCallOK ==
  ASSUME DraftOK, draft # NULL, viewYear \in Years \cup {NULL}, NEW op \in EditorOps, NEW y \in Years
  PROVE  CallOK(plot, EditorCall(op, y))
<1> DEFINE c == EditorCall(op, y)
<1>1. openNode \in Nodes /\ EditOK(openNode, draft)
  BY DEF DraftOK
<1>2. /\ CallShape(c) /\ c.op = op /\ c.year = y /\ c.node = openNode
      /\ c.text = draft.text /\ c.letter = draft.letter /\ c.view = viewYear
  BY EditorCallIs
<1> HIDE DEF c
<1>3. c.node \in Nodes /\ c.year \in Years /\ EditOK(c.node, c)
  BY <1>1, <1>2 DEF EditOK
<1>4. c.op \in {"update", "abolish"}
  BY <1>2 DEF EditorOps
<1>5. CallOK(plot, c)
  BY <1>2, <1>3, <1>4 DEF CallOK, EditorOps
<1> QED
  BY <1>5 DEF c

LEMMA NewNodes ==
  ASSUME ShownOK, dialog # NULL, NEW n \in NewKind
  PROVE  /\ dialog # "goal" => dialog \in Nodes
         /\ dialog = "goal" => n \in Goals
BY DEF ShownOK, NewKind

LEMMA FirstIsOK ==
  ASSUME ListOK(plot, calls), NEW op, Answers(op)
  PROVE  CallOK(plot, First1) /\ First1.op = op /\ 1 \in 1..Len(calls)
<1>1. Len(calls) \in Nat \ {0}
  BY ListIsShaped, RestIsShaped DEF Answers
<1> QED
  BY <1>1 DEF ListOK, First1, Answers

LEMMA CallsStayOK ==
  ASSUME ShownOK, ShownOK', ListOK(plot, calls), PlanScreensNext
  PROVE  ListOK(plot, calls)'
<1>1. Shaped(calls)
  BY ListIsShaped
<1>2. ASSUME NEW y \in Years, SaveEditor(y) PROVE ListOK(plot, calls)'
  <2>1. draft # NULL
    BY <1>2 DEF SaveEditor, EditorOffers
  <2>2. ListOK(plot, <<EditorCall("update", y)>>)
    BY <2>1, EditorCallOK, OneIsOK DEF ShownOK, EditorOps
  <2> QED
    BY <1>1, <1>2, <2>2, PlanEmissions, SendsOK
<1>3. ASSUME NEW y \in Years, AbolishOpen(y) PROVE ListOK(plot, calls)'
  <2>1. draft # NULL
    BY <1>3 DEF AbolishOpen, EditorOffers
  <2>2. ListOK(plot, <<EditorCall("abolish", y)>>)
    BY <2>1, EditorCallOK, OneIsOK DEF ShownOK, EditorOps
  <2> QED
    BY <1>1, <1>3, <2>2, PlanEmissions, SendsOK
<1>4. ASSUME NEW n \in Nodes, NEW y \in Years, SubmitDialog(n, y) PROVE ListOK(plot, calls)'
  <2> DEFINE c == CreateCall(n, y)
  <2>1. n \in Goals \/ dialog \in Nodes
    BY <1>4, NewNodes DEF SubmitDialog
  <2>2. [f \in AllFields |-> steps + 1] \in [AllFields -> Nat]
    BY DEF ShownOK
  <2>3. /\ CallShape(c) /\ c.op = "create" /\ c.node = n /\ c.parent = dialog /\ c.year = y
        /\ c.text = [f \in AllFields |-> steps + 1] /\ ~c.fresh /\ c.view \in Years \cup {NULL}
    BY CreateCallIs DEF ShownOK
  <2> HIDE DEF c
  <2>4. CallOK(plot, c)
    BY <2>1, <2>2, <2>3 DEF CallOK, EditorOps
  <2>5. Sends(0, <<c>>)
    BY <1>1, <1>4, PlanEmissions DEF c
  <2> QED
    BY <2>4, <2>5, OneIsOK, SendsOK
<1>5. ASSUME NEW y \in Years, AskRevision(y) PROVE ListOK(plot, calls)'
  <2> DEFINE c == ReviseCall(y)
  <2>1. viewYear = NULL
    BY <1>5 DEF AskRevision, RevisionOffers, ReadOnly
  <2>2. CallShape(c) /\ c.op = "revise" /\ c.year = y /\ c.view = viewYear /\ ~c.fresh
    BY OtherCallsAre
  <2>3. Sends(0, <<c>>)
    BY <1>1, <1>5, PlanEmissions
  <2> HIDE DEF c
  <2>4. CallOK(plot, c)
    BY <2>1, <2>2 DEF CallOK, EditorOps
  <2> QED
    BY <2>3, <2>4, OneIsOK, SendsOK
<1>6. ASSUME NEW e \in log, RollBack(e) PROVE ListOK(plot, calls)'
  <2> DEFINE c == RollBackCall(e)
  <2>1. "rollback" \in plot.may["changes"]
    BY <1>6 DEF RollBack, Try
  <2>2. CallShape(c) /\ c.op = "rollback" /\ ~c.fresh /\ c.view \in Years \cup {NULL}
    BY OtherCallsAre DEF ShownOK
  <2>3. Sends(0, <<c>>)
    BY <1>1, <1>6, PlanEmissions
  <2> HIDE DEF c
  <2>4. CallOK(plot, c)
    BY <2>1, <2>2 DEF CallOK, EditorOps
  <2> QED
    BY <2>3, <2>4, OneIsOK, SendsOK
<1>7. CASE \E k \in {0, 1} : \E y \in Years \cup {NULL} : SendsPlain(k, y)
  BY <1>7, SendsPlainOK
<1>8. viewYear' \in Years \cup {NULL} /\ NULL \in Years \cup {NULL}
  BY DEF ShownOK
<1>9. ASSUME calls # <<>> PROVE First1.view \in Years \cup {NULL}
  BY <1>1, <1>9, FirstIsOK DEF CallOK, Answers
<1>10. \/ EditSaved \/ NodeAbolished \/ NodeCreated \/ RolledBack \/ FundChanged \/ FundMoved
         => calls # <<>>
  BY DEF EditSaved, NodeAbolished, NodeCreated, RolledBack, FundChanged, FundMoved, Answers
<1> QED
  BY <1>1, <1>2, <1>3, <1>4, <1>5, <1>6, <1>7, <1>8, <1>9, <1>10, PlainEmissions, PlainAnswers DEF PlanScreensNext


-----------------------------------------------------------------------------
(* What the services do is what SpStructure says.                          *)

LEMMA SentIsNamed ==
  ASSUME PlanInv, NEW c, c.node \in Stored, EditOK(c.node, c)
  PROVE  Sent(c) \in Names
<1>1. row[c.node] \in Row /\ c.node \in Nodes
  BY StoredRow DEF PlanInv, HistoryInv
<1>2. row[c.node].name \in [AllFields -> Nat]
  BY <1>1, PlanScreensAssumption DEF Row
<1>3. c.text \in [Fields(c.node) -> Nat]
  BY DEF EditOK
<1>4. \A f \in AllFields : (IF f \in Fields(c.node) THEN c.text[f] ELSE row[c.node].name[f]) \in Nat
  BY <1>2, <1>3
<1> QED
  BY <1>4, PlanScreensAssumption DEF Sent

\* A goal has no parent, whatever the request says.
LEMMA GoalCreation ==
  ASSUME NEW n \in Goals, NEW name, NEW p, NEW q, NEW y, CreateNode(n, name, p, y)
  PROVE  CreateNode(n, name, q, y)
<1>1. Above(n, p) = Above(n, q)
  BY DEF Above
<1> QED
  BY <1>1 DEF CreateNode

LEMMA EditIsUpdate ==
  ASSUME PlanInv, ListOK(plot, calls), EditSaved
  PROVE  /\ First1.year \in Years /\ Update(First1.year)
         /\ First1.node \in Stored /\ Sent(First1) \in Names
         /\ First1.letter \in Letters \cup {NULL}
         /\ UpdateNode(First1.node, Sent(First1), First1.letter, First1.year)
<1>1. CallOK(plot, First1) /\ First1.op = "update"
  BY FirstIsOK DEF EditSaved
<1>2. First1.node \in Nodes /\ First1.year \in Years /\ EditOK(First1.node, First1)
  BY <1>1 DEF CallOK, EditorOps
<1>3. UpdateNode(First1.node, Sent(First1), First1.letter, First1.year) /\ First1.node \in Stored
  BY DEF EditSaved, UpdateNode
<1>4. Sent(First1) \in Names
  BY <1>2, <1>3, SentIsNamed
<1>5. First1.letter \in Letters \cup {NULL}
  BY <1>2 DEF EditOK
<1> QED
  BY <1>2, <1>3, <1>4, <1>5 DEF Update

LEMMA AbolitionIsAbolish ==
  ASSUME ListOK(plot, calls), NodeAbolished
  PROVE  /\ First1.year \in Years /\ Abolish(First1.year) /\ First1.node \in Nodes
         /\ AbolishNode(First1.node, First1.year) \/ AbolishKpi(First1.node, First1.year)
<1>1. CallOK(plot, First1) /\ First1.op = "abolish"
  BY FirstIsOK DEF NodeAbolished
<1>2. First1.node \in Nodes /\ First1.year \in Years
  BY <1>1 DEF CallOK, EditorOps
<1> QED
  BY <1>2 DEF NodeAbolished, Abolish

\* Under the parent the dialog named, or any node for a goal.
LEMMA CreationIsCreate ==
  ASSUME ListOK(plot, calls), NodeCreated
  PROVE  /\ First1.year \in Years /\ First1.node \in Nodes /\ First1.text \in Names
         /\ \E p \in Nodes : /\ First1.node \in Goals \/ p = First1.parent
                             /\ CreateNode(First1.node, First1.text, p, First1.year)
<1>1. CallOK(plot, First1) /\ First1.op = "create"
  BY FirstIsOK DEF NodeCreated
<1>2. /\ First1.node \in Nodes /\ First1.year \in Years /\ First1.text \in Names
      /\ First1.node \in Goals \/ First1.parent \in Nodes
  BY <1>1, PlanScreensAssumption DEF CallOK
<1>3. CreateNode(First1.node, First1.text, First1.parent, First1.year)
  BY DEF NodeCreated
<1>4. CASE First1.node \in Goals
  BY <1>2, <1>3, <1>4, GoalCreation
<1>5. CASE First1.parent \in Nodes
  BY <1>2, <1>3, <1>5
<1> QED
  BY <1>2, <1>4, <1>5

LEMMA RevisionIsRevise ==
  ASSUME ListOK(plot, calls), Revised
  PROVE  First1.year \in Years /\ First1.view = NULL /\ (Revise(First1.year) \/ UNCHANGED plan)
<1>1. CallOK(plot, First1) /\ First1.op = "revise"
  BY FirstIsOK DEF Revised
<1>2. First1.year \in Years /\ First1.view = NULL
  BY <1>1 DEF CallOK
<1>3. Revise(First1.year) \/ UNCHANGED plan
  <2>1. CASE First1.node = "structure"
    BY <2>1 DEF Revised, Revise
  <2>2. CASE First1.node = "kpi"
    BY <2>2 DEF Revised, Revise
  <2>3. CASE First1.node \notin {"structure", "kpi"}
    BY <2>3 DEF Revised
  <2> QED
    BY <2>1, <2>2, <2>3
<1> QED
  BY <1>2, <1>3

\* The actions that leave the plan alone.
PlanWrites == EditSaved \/ NodeAbolished \/ NodeCreated \/ Revised \/ RolledBack

LEMMA OthersKeepPlan ==
  ASSUME PlanScreensNext
  PROVE  PlanWrites \/ UNCHANGED plan
<1>1. UNCHANGED services => UNCHANGED plan
  BY DEF services
<1>2. ASSUME NEW n, ToggleEditor(n) PROVE UNCHANGED plan
  BY <1>1, <1>2 DEF ToggleEditor
<1>3. ASSUME NEW f, Type(f) PROVE UNCHANGED plan
  BY <1>1, <1>3 DEF Type
<1>4. ASSUME NEW l, TypeLetter(l) PROVE UNCHANGED plan
  BY <1>1, <1>4 DEF TypeLetter
<1>5. ASSUME NEW y, SaveEditor(y) \/ AbolishOpen(y) \/ AskRevision(y) PROVE UNCHANGED plan
  BY <1>1, <1>5 DEF SaveEditor, AbolishOpen, AskRevision
<1>6. ASSUME NEW v, LeaveCell(v) PROVE UNCHANGED plan
  BY <1>1, <1>6 DEF LeaveCell
<1>7. ASSUME NEW p, OpenDialog(p) PROVE UNCHANGED plan
  BY <1>1, <1>7 DEF OpenDialog
<1>8. ASSUME NEW n, NEW y, SubmitDialog(n, y) PROVE UNCHANGED plan
  BY <1>1, <1>8 DEF SubmitDialog
<1>9. CloseDialog => UNCHANGED plan
  BY <1>1 DEF CloseDialog
<1>10. ASSUME NEW t, ChangeTab(t) PROVE UNCHANGED plan
  BY <1>1, <1>10 DEF ChangeTab
<1>11. ASSUME NEW y, LookUp(y) PROVE UNCHANGED plan
  BY <1>1, <1>11 DEF LookUp
<1>12. ASSUME NEW e, RollBack(e) PROVE UNCHANGED plan
  BY <1>1, <1>12 DEF RollBack
<1>13. ASSUME NEW f, NEW y, ChangeFund(f, y) PROVE UNCHANGED plan
  BY <1>1, <1>13 DEF ChangeFund
<1>14. ASSUME NEW i, MoveFund(i) PROVE UNCHANGED plan
  BY <1>1, <1>14 DEF MoveFund
<1>15. TreeArrives \/ RevisionsArrive \/ FundsArrive \/ CallFails => UNCHANGED plan
  BY <1>1 DEF TreeArrives, RevisionsArrive, FundsArrive, CallFails
<1>16. TargetSaved \/ FundChanged \/ FundMoved \/ FundHalfMoved => UNCHANGED plan
  BY DEF TargetSaved, FundChanged, FundMoved, FundHalfMoved
<1> QED
  BY <1>2, <1>3, <1>4, <1>5, <1>6, <1>7, <1>8, <1>9, <1>10, <1>11, <1>12, <1>13, <1>14, <1>15, <1>16
  DEF PlanScreensNext, PlanWrites

LEMMA StepsOfPlan ==
  ASSUME PlanInv, ListOK(plot, calls), PlanScreensNext
  PROVE  [Next]_vars
<1>1. EditSaved => Next
  BY EditIsUpdate DEF Next
<1>2. NodeAbolished => Next
  BY AbolitionIsAbolish DEF Next
<1>3. ASSUME NodeCreated PROVE Next
  <2>1. Create(First1.year) /\ First1.year \in Years
    BY <1>3, CreationIsCreate DEF Create
  <2> QED
    BY <2>1 DEF Next
<1>4. Revised => Next \/ UNCHANGED plan
  BY RevisionIsRevise DEF Next
<1>5. RolledBack => Next
  BY DEF RolledBack, Rollback, Next
<1>6. UNCHANGED plan => UNCHANGED vars
  BY DEF plan, vars
<1> QED
  BY <1>1, <1>2, <1>3, <1>4, <1>5, <1>6, OthersKeepPlan DEF PlanWrites


-----------------------------------------------------------------------------
(* What the page shows keeps its types.                                    *)

LEMMA CapturedOK ==
  ASSUME NEW t, NodesOK(t.nodes), NEW n \in DOMAIN t.nodes, NEW b
  PROVE  DraftShape(Captured(t, n, b)) /\ EditOK(n, Captured(t, n, b))
<1>1. n \in Nodes /\ t.nodes[n].name \in [AllFields -> Nat] /\ t.nodes[n].suffix \in Letters \cup {NULL}
  BY PlanScreensAssumption DEF NodesOK
<1>2. [f \in Fields(n) |-> t.nodes[n].name[f]] \in [Fields(n) -> Nat]
  BY <1>1, FieldsAreFields
<1>3. /\ Captured(t, n, b).text = [f \in Fields(n) |-> t.nodes[n].name[f]]
      /\ Captured(t, n, b).letter = t.nodes[n].suffix
  BY DEF Captured
<1>4. DraftShape(Captured(t, n, b))
  BY DEF Captured, DraftShape
<1> QED
  BY <1>1, <1>2, <1>3, <1>4 DEF EditOK

LEMMA TypedOK ==
  ASSUME NEW d, DraftShape(d), NEW n, EditOK(n, d), NEW f \in Fields(n), NEW v \in Nat,
         NEW e, e = [d EXCEPT !.text[f] = v, !.typed = @ \cup {f}]
  PROVE  DraftShape(e) /\ EditOK(n, e)
<1>1. DOMAIN e = DOMAIN d
  OBVIOUS
<1>2. e.text = [d.text EXCEPT ![f] = v] /\ e.letter = d.letter
  BY DEF DraftShape
<1>3. [d.text EXCEPT ![f] = v] \in [Fields(n) -> Nat]
  BY DEF EditOK
<1> QED
  BY <1>1, <1>2, <1>3 DEF DraftShape, EditOK

LEMMA LetteredOK ==
  ASSUME NEW d, DraftShape(d), NEW n, EditOK(n, d), NEW l \in Letters,
         NEW e, e = [d EXCEPT !.letter = l, !.typed = @ \cup {"letter"}]
  PROVE  DraftShape(e) /\ EditOK(n, e)
<1>1. DOMAIN e = DOMAIN d
  OBVIOUS
<1>2. e.text = d.text /\ e.letter = l
  BY DEF DraftShape
<1> QED
  BY <1>1, <1>2 DEF DraftShape, EditOK

LEMMA PageKept ==
  ASSUME ShownOK, UNCHANGED page, steps' \in Nat
  PROVE  ShownOK'
<1>1. /\ pageTab' = pageTab /\ viewYear' = viewYear /\ planTree' = planTree /\ broken' = broken
      /\ openNode' = openNode /\ draft' = draft /\ dialog' = dialog
  BY DEF page
<1> QED
  BY <1>1 DEF ShownOK, DraftOK

LEMMA EditorShownOK ==
  ASSUME ShownOK
  PROVE  /\ \A n \in Nodes : ToggleEditor(n) => ShownOK'
         /\ \A f \in AllFields : Type(f) => ShownOK'
         /\ \A l \in Letters : TypeLetter(l) => ShownOK'
<1>1. ASSUME NEW n \in Nodes, ToggleEditor(n) PROVE ShownOK'
  <2>1. /\ steps' \in Nat /\ pageTab' = pageTab /\ viewYear' = viewYear /\ planTree' = planTree
        /\ dialog' = dialog
    BY <1>1 DEF ToggleEditor, Try, ShownOK
  <2>2. planTree # NULL /\ n \in DOMAIN planTree.nodes /\ pageTab \in {"structure", "kpi"}
    BY <1>1 DEF ToggleEditor, Visible, Usable, Hangs
  <2>3. CASE openNode = n
    BY <1>1, <2>1, <2>3 DEF ToggleEditor, ShownOK, DraftOK
  <2>4. CASE openNode # n
    <3>1. openNode' = n /\ \E b : draft' = Captured(planTree, n, b)
      BY <1>1, <2>4 DEF ToggleEditor
    <3>2. DraftShape(draft') /\ EditOK(n, draft')
      BY <2>2, <3>1, CapturedOK DEF ShownOK
    <3> QED
      BY <2>1, <2>2, <3>1, <3>2 DEF ShownOK, DraftOK
  <2> QED
    BY <2>3, <2>4
<1>2. ASSUME NEW f \in AllFields, Type(f) PROVE ShownOK'
  <2>1. /\ steps' \in Nat /\ pageTab' = pageTab /\ viewYear' = viewYear /\ planTree' = planTree
        /\ dialog' = dialog /\ openNode' = openNode /\ steps + 1 \in Nat
    BY <1>2 DEF Type, Try, ShownOK
  <2>2. draft # NULL /\ f \in Fields(openNode)
    BY <1>2 DEF Type, EditorOffers
  <2>3. draft' = [draft EXCEPT !.text[f] = steps + 1, !.typed = @ \cup {f}]
    BY <1>2 DEF Type
  <2>4. DraftShape(draft') /\ EditOK(openNode, draft')
    BY <2>1, <2>2, <2>3, TypedOK DEF ShownOK, DraftOK
  <2> QED
    BY <2>1, <2>2, <2>4 DEF ShownOK, DraftOK
<1>3. ASSUME NEW l \in Letters, TypeLetter(l) PROVE ShownOK'
  <2>1. /\ steps' \in Nat /\ pageTab' = pageTab /\ viewYear' = viewYear /\ planTree' = planTree
        /\ dialog' = dialog /\ openNode' = openNode
    BY <1>3 DEF TypeLetter, Try, ShownOK
  <2>2. draft # NULL
    BY <1>3 DEF TypeLetter, EditorOffers
  <2>3. draft' = [draft EXCEPT !.letter = l, !.typed = @ \cup {"letter"}]
    BY <1>3 DEF TypeLetter
  <2>4. DraftShape(draft') /\ EditOK(openNode, draft')
    BY <2>2, <2>3, LetteredOK DEF ShownOK, DraftOK
  <2> QED
    BY <2>1, <2>2, <2>4 DEF ShownOK, DraftOK
<1> QED
  BY <1>1, <1>2, <1>3

LEMMA RequestsShownOK ==
  ASSUME ShownOK
  PROVE  /\ \A y : SaveEditor(y) \/ AbolishOpen(y) \/ AskRevision(y) => ShownOK'
         /\ \A v : LeaveCell(v) => ShownOK'
         /\ \A n, y : SubmitDialog(n, y) => ShownOK'
         /\ \A e : RollBack(e) => ShownOK'
         /\ \A f, y : ChangeFund(f, y) => ShownOK'
         /\ \A i : MoveFund(i) => ShownOK'
<1> DEFINE Sending == UNCHANGED page /\ steps' = steps + 1
<1>1. Sending => ShownOK'
  BY PageKept DEF ShownOK
<1>2. \A y : SaveEditor(y) \/ AbolishOpen(y) \/ AskRevision(y) => Sending
  BY DEF SaveEditor, AbolishOpen, AskRevision, Try
<1>3. \A v : LeaveCell(v) => Sending
  BY DEF LeaveCell, Try
<1>4. \A n, y : SubmitDialog(n, y) => Sending
  BY DEF SubmitDialog, Try
<1>5. \A e : RollBack(e) => Sending
  BY DEF RollBack, Try
<1>6. \A f, y : ChangeFund(f, y) => Sending
  BY DEF ChangeFund, Try
<1>7. \A i : MoveFund(i) => Sending
  BY DEF MoveFund, Try
<1> HIDE DEF Sending
<1> QED
  BY <1>1, <1>2, <1>3, <1>4, <1>5, <1>6, <1>7

LEMMA TabsShownOK ==
  ASSUME ShownOK
  PROVE  /\ \A p \in Nodes \cup {"goal"} : OpenDialog(p) => ShownOK'
         /\ CloseDialog => ShownOK'
         /\ \A t : ChangeTab(t) => ShownOK'
         /\ \A y \in Years \cup {NULL} : LookUp(y) => ShownOK'
<1>1. ASSUME NEW p \in Nodes \cup {"goal"}, OpenDialog(p) PROVE ShownOK'
  <2>1. /\ steps' \in Nat /\ pageTab' = pageTab /\ viewYear' = viewYear /\ planTree' = planTree
        /\ openNode' = openNode /\ draft' = draft /\ dialog' = p
    BY <1>1 DEF OpenDialog, Try, ShownOK
  <2>2. pageTab \in {"structure", "kpi"}
    BY <1>1 DEF OpenDialog
  <2> QED
    BY <2>1, <2>2 DEF ShownOK, DraftOK
<1>2. CloseDialog => ShownOK'
  BY DEF CloseDialog, ShownOK, DraftOK
<1>3. ASSUME NEW t, ChangeTab(t) PROVE ShownOK'
  BY <1>3 DEF ChangeTab, Try, ShownOK, DraftOK
<1>4. ASSUME NEW y \in Years \cup {NULL}, LookUp(y) PROVE ShownOK'
  <2>1. /\ steps' \in Nat /\ pageTab' = pageTab /\ viewYear' = y /\ planTree' = planTree
        /\ openNode' = openNode /\ draft' = draft /\ dialog' = dialog
    BY <1>4 DEF LookUp, Try, ShownOK
  <2> QED
    BY <2>1 DEF ShownOK, DraftOK
<1> QED
  BY <1>1, <1>2, <1>3, <1>4

LEMMA AnswersShownOK ==
  ASSUME PlanInv, ShownOK, ListOK(plot, calls)
  PROVE  /\ TreeArrives => ShownOK'
         /\ RevisionsArrive \/ FundsArrive => ShownOK'
         /\ EditSaved \/ NodeAbolished \/ TargetSaved \/ RolledBack => ShownOK'
         /\ NodeCreated \/ Revised => ShownOK'
         /\ FundChanged \/ FundMoved \/ FundHalfMoved => ShownOK'
         /\ CallFails => ShownOK'
<1>1. ASSUME TreeArrives PROVE ShownOK'
  <2> DEFINE t == TreeOf(First1.view)
             there == openNode # NULL /\ Hangs(t, openNode)
             held == IF draft = NULL THEN Captured(t, openNode, FALSE) ELSE draft
  <2>1. /\ steps' = steps /\ pageTab' = pageTab /\ viewYear' = viewYear /\ planTree' = t
        /\ openNode' = openNode /\ (dialog' = NULL \/ dialog' = dialog)
        /\ draft' = IF ~there THEN NULL ELSE held
    BY <1>1 DEF TreeArrives
  <2>2. NodesOK(t.nodes)
    BY <1>1, FirstIsOK, TreeOfPlan DEF TreeArrives, CallOK
  <2>3. there => openNode \in Nodes /\ openNode \in DOMAIN t.nodes
    BY <2>2 DEF Hangs, NodesOK
  <2>4. there => DraftShape(held) /\ EditOK(openNode, held)
    BY <2>2, <2>3, CapturedOK DEF ShownOK, DraftOK
  <2> HIDE DEF t, there, held
  <2>5. DraftOK'
    BY <2>1, <2>3, <2>4 DEF DraftOK
  <2> QED
    BY <2>1, <2>2, <2>5 DEF ShownOK
<1>2. RevisionsArrive \/ FundsArrive => ShownOK'
  BY DEF RevisionsArrive, FundsArrive, ShownOK, DraftOK
<1>3. ASSUME EditSaved \/ NodeAbolished \/ TargetSaved \/ RolledBack PROVE ShownOK'
  <2>1. UNCHANGED page /\ steps' = steps
    BY <1>3 DEF EditSaved, NodeAbolished, TargetSaved, RolledBack
  <2> QED
    BY <2>1, PageKept DEF ShownOK
<1>4. NodeCreated => ShownOK'
  BY DEF NodeCreated, ShownOK, DraftOK
<1>5. Revised => ShownOK'
  BY DEF Revised, ShownOK, DraftOK
<1>6. ASSUME FundChanged \/ FundMoved \/ FundHalfMoved PROVE ShownOK'
  <2>1. UNCHANGED page /\ steps' = steps
    BY <1>6 DEF FundChanged, FundMoved, FundHalfMoved
  <2> QED
    BY <2>1, PageKept DEF ShownOK
<1>7. CallFails => ShownOK'
  BY DEF CallFails, ShownOK, DraftOK
<1> QED
  BY <1>1, <1>2, <1>3, <1>4, <1>5, <1>6, <1>7

LEMMA PageStays ==
  ASSUME PlanInv, PageInv, PlanScreensNext
  PROVE  PageInv'
<1>1. ShownOK /\ ListOK(plot, calls)
  BY DEF PageInv
<1>2. ShownOK'
  BY <1>1, EditorShownOK, RequestsShownOK, TabsShownOK, AnswersShownOK DEF PlanScreensNext
<1> QED
  BY <1>1, <1>2, CallsStayOK DEF PageInv


-----------------------------------------------------------------------------
(* The page as a client of the plan.                                       *)

LEMMA InitPage == PlanScreensInit => Init /\ PlanInv /\ PageInv
<1> SUFFICES ASSUME PlanScreensInit PROVE Init /\ PlanInv /\ PageInv
  OBVIOUS
<1>1. Init
  <2>1. [f \in AllFields |-> 0] \in Names
    BY PlanScreensAssumption
  <2> QED
    BY <2>1, PlanScreensAssumption DEF PlanScreensInit, Init
<1>2. ShownOK
  BY DEF PlanScreensInit, ShownOK, DraftOK
<1>3. AllPlain(NULL, <<LoadOf("load", NULL), LoadOf("revisions", NULL)>>)
  BY LoadIsPlain, PlainLists
<1>4. ListOK(plot, calls)
  BY <1>3, PlainIsOK DEF PlanScreensInit
<1> QED
  BY <1>1, <1>2, <1>4, InitPlan DEF PageInv

LEMMA PageSteps ==
  PlanInv /\ PageInv /\ [PlanScreensNext]_psvars => PlanInv' /\ PageInv' /\ [Next]_vars
<1> SUFFICES ASSUME PlanInv, PageInv, [PlanScreensNext]_psvars
             PROVE  PlanInv' /\ PageInv' /\ [Next]_vars
  OBVIOUS
<1>1. CASE PlanScreensNext
  BY <1>1, PageStays, StepsOfPlan, NextPlan DEF PageInv
<1>2. CASE UNCHANGED psvars
  <2>1. UNCHANGED vars
    BY <1>2 DEF psvars, services, plan, vars
  <2>2. UNCHANGED page /\ calls' = calls /\ plot' = plot /\ steps' = steps
    BY <1>2 DEF psvars
  <2>3. ShownOK'
    BY <2>2, PageKept DEF PageInv, ShownOK
  <2>4. ListOK(plot, calls)'
    BY <2>2 DEF PageInv, ListOK
  <2> QED
    BY <2>1, <2>3, <2>4, NextPlan DEF PageInv
<1> QED
  BY <1>1, <1>2

\* Whatever the administrator does on the page, and in whatever order the answers come,
\* the plan goes through steps of SpStructure only: the page sends nothing its services
\* do not know, and a half-done sequence of requests is one the plan allows.
THEOREM PageFollowsPlan == PlanScreensSpec => Spec
BY InitPage, PageSteps, PTL DEF PlanScreensSpec, Spec

\* So the rows and their versions agree under the page too.
THEOREM PageKeepsRows == PlanScreensSpec => [](TypeOK /\ RowsAgree)
BY PageFollowsPlan, RowsAlwaysAgree, PTL


-----------------------------------------------------------------------------
(* What a service does to the row of a node.                               *)

Alive(rows, n) == n \in Nodes /\ rows[n] # NULL /\ rows[n].abolished = NULL

\* What e holds of node n is the row of n, but for what was typed.
Faithful(rows, n, e) ==
  /\ n \in Nodes /\ rows[n] # NULL
  /\ \A f \in Fields(n) \ e.typed : e.text[f] = rows[n].name[f]
  /\ "letter" \notin e.typed => e.letter = rows[n].suffix

\* The node has the fields and the letter it had.
TextKept(n) == row'[n] # NULL /\ row'[n].name = row[n].name /\ row'[n].suffix = row[n].suffix

LEMMA AliveIsLive ==
  ASSUME NEW n
  PROVE  /\ Alive(row, n) <=> n \in Live
         /\ Alive(row', n) <=> n \in Live'
BY DEF Alive, Live, Stored

LEMMA KeptIsFaithful ==
  ASSUME NEW n, NEW e, Faithful(row, n, e), TextKept(n)
  PROVE  Faithful(row', n, e)
BY DEF Faithful, TextKept

LEMMA EditedRow ==
  ASSUME PlanInv, ListOK(plot, calls), EditSaved
  PROVE  LET n == First1.node
         IN /\ n \in Nodes /\ row[n] # NULL /\ row'[n] # NULL
            /\ row'[n].name = Sent(First1) /\ row'[n].suffix = First1.letter
            /\ row'[n].abolished = row[n].abolished
            /\ \A m \in Nodes \ {n} : row'[m] = row[m]
<1> DEFINE n == First1.node
<1>1. /\ First1.year \in Years /\ n \in Stored /\ Sent(First1) \in Names
      /\ First1.letter \in Letters \cup {NULL}
      /\ UpdateNode(n, Sent(First1), First1.letter, First1.year)
  BY EditIsUpdate
<1>2. n \in Nodes /\ row[n] \in Row /\ row[n] # NULL
  BY <1>1, StoredRow, RowAssumption DEF PlanInv, HistoryInv
<1>3. PICK new : Updates(n, Sent(First1), First1.letter, First1.year, new)
  BY <1>1, <1>2, UpdateSaves DEF PlanInv, HistoryInv
<1>4. row'[n] = [row[n] EXCEPT !.name = Sent(First1), !.suffix = First1.letter] /\ row'[n] \in Row
  BY <1>2, <1>3 DEF Updates, Save
<1>5. \A m \in Nodes \ {n} : row'[m] = row[m]
  BY <1>3 DEF Updates, Save
<1> QED
  BY <1>2, <1>4, <1>5, RowAssumption DEF Row

LEMMA AbolitionKeepsText ==
  ASSUME PlanInv, NEW nodes \in SUBSET Stored, NEW y \in Years, AbolishAll(nodes, y), NEW n \in Stored
  PROVE  TextKept(n)
<1>1. n \in Nodes /\ row[n] \in Row
  BY StoredRow DEF PlanInv, HistoryInv
<1>2. row'[n] = [row[n] EXCEPT !.abolished = y] \/ row'[n] = row[n]
  BY <1>1 DEF AbolishAll, Save
<1>3. CASE row'[n] = [row[n] EXCEPT !.abolished = y]
  BY <1>1, <1>3, AbolishedRow, RowAssumption DEF TextKept
<1>4. CASE row'[n] = row[n]
  BY <1>1, <1>4, RowAssumption DEF TextKept
<1> QED
  BY <1>2, <1>3, <1>4

LEMMA AbolishedKeepsText ==
  ASSUME PlanInv, ListOK(plot, calls), NodeAbolished, NEW n \in Stored, n = First1.node
  PROVE  TextKept(n)
<1>1. /\ First1.year \in Years
      /\ AbolishNode(First1.node, First1.year) \/ AbolishKpi(First1.node, First1.year)
  BY AbolitionIsAbolish
<1>2. CASE AbolishNode(n, First1.year)
  <2>1. Cascade({n}) \in SUBSET Stored /\ AbolishAll(Cascade({n}), First1.year)
    BY <1>2, CascadeIsStored DEF AbolishNode
  <2> QED
    BY <1>1, <2>1, AbolitionKeepsText
<1>3. CASE AbolishKpi(n, First1.year)
  <2>1. Save(ClosedUp(n, First1.year), ClosingTypes(n), First1.year)
    BY <1>1, <1>3, AbolishKpiSaves DEF PlanInv, HistoryInv
  <2>2. n \in Nodes /\ row[n] \in Row
    BY StoredRow DEF PlanInv, HistoryInv
  <2>3. row'[n] = [row[n] EXCEPT !.abolished = First1.year]
    BY <2>1, <2>2 DEF Save, ClosedUp
  <2> QED
    BY <1>1, <2>2, <2>3, AbolishedRow, RowAssumption DEF TextKept
<1> QED
  BY <1>1, <1>2, <1>3

LEMMA CreatedRows ==
  ASSUME PlanInv, ListOK(plot, calls), NodeCreated
  PROVE  /\ ~Alive(row, First1.node) /\ Alive(row', First1.node)
         /\ \A m \in Nodes \ {First1.node} : row'[m] = row[m]
<1>1. PICK p \in Nodes : CreateNode(First1.node, First1.text, p, First1.year)
  BY CreationIsCreate
<1>2. First1.year \in Years /\ First1.node \in Nodes /\ First1.text \in Names
  BY CreationIsCreate
<1>3. PICK new : Creates(First1.node, First1.text, p, First1.year, new)
  BY <1>1, <1>2, CreateSaves DEF PlanInv, HistoryInv
<1>4. /\ row'[First1.node] = new[First1.node] /\ new[First1.node] \in Row
      /\ new[First1.node].abolished = NULL
      /\ \A m \in Nodes \ {First1.node} : row'[m] = row[m]
  BY <1>2, <1>3 DEF Creates, Save
<1>5. ~Alive(row, First1.node)
  BY <1>1 DEF CreateNode, Alive, Stored
<1> QED
  BY <1>2, <1>4, <1>5, RowAssumption DEF Alive

LEMMA RevisionKeepsText ==
  ASSUME PlanInv, ListOK(plot, calls), Revised, NEW n \in Stored
  PROVE  TextKept(n)
<1>1. First1.year \in Years /\ (Revise(First1.year) \/ UNCHANGED plan)
  BY RevisionIsRevise
<1>2. CASE ReviseStructure(First1.year)
  <2>1. Cascade(Live \cap Goals) \in SUBSET Stored
    BY CascadeIsStored DEF Live
  <2> QED
    BY <1>1, <1>2, <2>1, AbolitionKeepsText DEF ReviseStructure
<1>3. CASE ReviseKpis(First1.year)
  <2>1. Live \cap Kpis \in SUBSET Stored
    BY DEF Live
  <2> QED
    BY <1>1, <1>3, <2>1, AbolitionKeepsText DEF ReviseKpis
<1>4. CASE UNCHANGED plan
  BY <1>4 DEF plan, TextKept, Stored
<1> QED
  BY <1>1, <1>2, <1>3, <1>4 DEF Revise


-----------------------------------------------------------------------------
(* Requests that mean what the administrator saw.                          *)

\* Request c may be answered before an editor of n, in which the fields of typed were
\* typed and which shows the others as they are, is saved.
Spares(rows, c, n, typed) ==
  /\ c.op # "rollback"
  /\ c.op = "create" => Alive(rows, n)
  /\ c.op \in EditorOps => c.fresh /\ c.node = n /\ c.typed \subseteq typed

\* A request sent on a page that showed what there is.
Meant(rows, y, c) ==
  /\ c.view = y
  /\ c.op = "create" => c.node \in Goals \/ Alive(rows, c.parent)
  /\ c.fresh => Faithful(rows, c.node, c)

\* It still means it when c has been answered before it.
After(rows, c, d) ==
  /\ d.op = "create" => c.op \notin {"abolish", "revise", "rollback"}
  /\ d.fresh => Spares(rows, c, d.node, d.typed)

CallsMeant(rows, y, cs) ==
  /\ \A i \in 1..Len(cs) : Meant(rows, y, cs[i])
  /\ \A i, j \in 1..Len(cs) : i < j => After(rows, cs[i], cs[j])

SparedBy(rows, cs, n, typed) == \A i \in 1..Len(cs) : Spares(rows, cs[i], n, typed)

\* The open editor, if it was opened on the plan as it was, and the dialog.
DraftMeant ==
  draft # NULL /\ draft.fresh =>
    /\ Faithful(row, openNode, draft) /\ SparedBy(row, calls, openNode, draft.typed)
    /\ dialog # NULL => Alive(row, openNode)

DialogMeant ==
  dialog # NULL => /\ dialog # "goal" => Alive(row, dialog)
                   /\ \A i \in 1..Len(calls) : calls[i].op \in {"create", "load"}

LoadPending(cs) == \E i \in 1..Len(cs) : cs[i].op = "load"

Viewed == broken \/ LoadPending(calls) \/ planTree.nodes = TreeOf(viewYear).nodes

MeantInv == ~hasty => CallsMeant(row, viewYear, calls) /\ DraftMeant /\ DialogMeant /\ Viewed

-----------------------------------------------------------------------------
(* The requests that are under way, through a step.                        *)

LEMMA SameMeans ==
  ASSUME NEW c, NEW d, Same(c, d), NEW rows
  PROVE  /\ \A y : Meant(rows, y, c) => Meant(rows, y, d)
         /\ \A n, typed : Spares(rows, c, n, typed) => Spares(rows, d, n, typed)
         /\ \A e : After(rows, c, e) => After(rows, d, e)
         /\ \A e : After(rows, e, c) => After(rows, e, d)
<1>1. ASSUME NEW y, Meant(rows, y, c) PROVE Meant(rows, y, d)
  BY <1>1 DEF Same, Meant, Faithful
<1>2. \A n, typed : Spares(rows, c, n, typed) => Spares(rows, d, n, typed)
  BY DEF Same, Spares
<1>3. \A e : After(rows, c, e) => After(rows, d, e)
  BY <1>2 DEF Same, After
<1>4. \A e : After(rows, e, c) => After(rows, e, d)
  BY DEF Same, After
<1> QED
  BY <1>1, <1>2, <1>3, <1>4

LEMMA AfterSame ==
  ASSUME NEW rows, NEW c, NEW d, After(rows, c, d), NEW e, Same(c, e), NEW f, Same(d, f)
  PROVE  After(rows, e, f) /\ After(rows, e, d) /\ After(rows, c, f)
<1>1. After(rows, e, d)
  BY SameMeans
<1> QED
  BY <1>1, SameMeans

\* What is to be shown of a step so that the requests after it are meant.
LEMMA StillMeant ==
  ASSUME NEW old, NEW k \in {0, 1}, NEW more, NEW new, Carries(old, k, more, new),
         Len(old) \in Nat, Len(more) \in Nat, NEW rows, NEW y,
         \A i \in (k + 1)..Len(old) : Meant(rows, y, old[i]),
         \A i, j \in (k + 1)..Len(old) : i < j => After(rows, old[i], old[j]),
         \A i \in 1..Len(more) : Meant(rows, y, more[i]),
         \A i \in (k + 1)..Len(old), j \in 1..Len(more) : After(rows, old[i], more[j]),
         \A i, j \in 1..Len(more) : i < j => After(rows, more[i], more[j])
  PROVE  CallsMeant(rows, y, new)
<1>1. Len(new) \in Nat /\ Len(new) = (Len(old) - k) + Len(more) /\ k <= Len(old)
  BY DEF Carries
<1>2. ASSUME NEW i \in 1..Len(new), i <= Len(old) - k
      PROVE  k + i \in (k + 1)..Len(old) /\ Same(old[k + i], new[i])
  BY <1>1, <1>2 DEF Carries
<1>3. ASSUME NEW i \in 1..Len(new), i > Len(old) - k
      PROVE  \E m \in 1..Len(more) : i = (Len(old) - k) + m /\ new[i] = more[m]
  <2>1. /\ i - (Len(old) - k) \in 1..Len(more)
        /\ i = (Len(old) - k) + (i - (Len(old) - k))
    BY <1>1, <1>3
  <2> QED
    BY <2>1 DEF Carries
<1>4. ASSUME NEW i \in 1..Len(new)
      PROVE  Meant(rows, y, new[i])
  <2>1. CASE i <= Len(old) - k
    <3>1. k + i \in (k + 1)..Len(old) /\ Same(old[k + i], new[i])
      BY <1>2, <2>1
    <3>2. Meant(rows, y, old[k + i])
      BY <3>1
    <3> QED
      BY <3>1, <3>2, SameMeans
  <2>2. CASE i > Len(old) - k
    BY <1>3, <2>2
  <2> QED
    BY <1>1, <2>1, <2>2
<1>5. ASSUME NEW i \in 1..Len(new), NEW j \in 1..Len(new), i < j
      PROVE  After(rows, new[i], new[j])
  <2>1. CASE i <= Len(old) - k /\ j <= Len(old) - k
    <3>1. /\ k + i \in (k + 1)..Len(old) /\ k + j \in (k + 1)..Len(old)
          /\ Same(old[k + i], new[i]) /\ Same(old[k + j], new[j])
      BY <1>2, <2>1
    <3>2. k + i < k + j
      BY <1>5
    <3>3. After(rows, old[k + i], old[k + j])
      BY <3>1, <3>2
    <3> QED
      BY <3>1, <3>3, AfterSame
  <2>2. CASE i <= Len(old) - k /\ j > Len(old) - k
    <3>1. k + i \in (k + 1)..Len(old) /\ Same(old[k + i], new[i])
      BY <1>2, <2>2
    <3>2. PICK m \in 1..Len(more) : new[j] = more[m]
      BY <1>3, <2>2
    <3>3. After(rows, old[k + i], more[m])
      BY <3>1
    <3> QED
      BY <3>1, <3>2, <3>3, SameMeans
  <2>3. CASE i > Len(old) - k
    <3>1. PICK l \in 1..Len(more) : i = (Len(old) - k) + l /\ new[i] = more[l]
      BY <1>3, <2>3
    <3>2. j > Len(old) - k
      BY <1>1, <1>5, <2>3
    <3>3. PICK m \in 1..Len(more) : j = (Len(old) - k) + m /\ new[j] = more[m]
      BY <1>3, <3>2
    <3>4. l < m
      BY <1>1, <1>5, <3>1, <3>3
    <3> QED
      BY <3>1, <3>3, <3>4
  <2> QED
    BY <1>1, <2>1, <2>2, <2>3
<1> QED
  BY <1>4, <1>5 DEF CallsMeant

LEMMA StillSpared ==
  ASSUME NEW old, NEW k \in {0, 1}, NEW more, NEW new, Carries(old, k, more, new),
         Len(old) \in Nat, Len(more) \in Nat, NEW rows, NEW n, NEW typed,
         \A i \in (k + 1)..Len(old) : Spares(rows, old[i], n, typed),
         SparedBy(rows, more, n, typed)
  PROVE  SparedBy(rows, new, n, typed)
<1>1. Len(new) \in Nat /\ Len(new) = (Len(old) - k) + Len(more) /\ k <= Len(old)
  BY DEF Carries
<1>2. ASSUME NEW i \in 1..Len(new), i <= Len(old) - k
      PROVE  Spares(rows, new[i], n, typed)
  <2>1. k + i \in (k + 1)..Len(old) /\ Same(old[k + i], new[i])
    BY <1>1, <1>2 DEF Carries
  <2>2. Spares(rows, old[k + i], n, typed)
    BY <2>1
  <2> QED
    BY <2>1, <2>2, SameMeans
<1>3. ASSUME NEW i \in 1..Len(new), i > Len(old) - k
      PROVE  Spares(rows, new[i], n, typed)
  <2>1. /\ i - (Len(old) - k) \in 1..Len(more)
        /\ i = (Len(old) - k) + (i - (Len(old) - k))
    BY <1>1, <1>3
  <2>2. new[i] = more[i - (Len(old) - k)]
    BY <2>1 DEF Carries
  <2> QED
    BY <2>1, <2>2 DEF SparedBy
<1> QED
  BY <1>1, <1>2, <1>3 DEF SparedBy

LEMMA StillPending ==
  ASSUME NEW old, NEW k \in {0, 1}, NEW more, NEW new, Carries(old, k, more, new),
         Len(old) \in Nat, Len(more) \in Nat, LoadPending(old), k = 1 => old[1].op # "load"
  PROVE  LoadPending(new)
<1>1. PICK i \in 1..Len(old) : old[i].op = "load"
  BY DEF LoadPending
<1>2. /\ i - k \in 1..(Len(old) - k) /\ k + (i - k) = i
      /\ i - k \in 1..Len(new)
  BY <1>1 DEF Carries
<1>3. Same(old[i], new[i - k])
  BY <1>2 DEF Carries
<1> QED
  BY <1>1, <1>2, <1>3 DEF LoadPending, Same

\* Requests that write nothing can be sent at any time.
LEMMA PlainIsMeant ==
  ASSUME NEW rows, NEW y, NEW more, AllPlain(y, more)
  PROVE  /\ Len(more) \in Nat /\ IsList(more)
         /\ \A i \in 1..Len(more) : Meant(rows, y, more[i])
         /\ \A c : \A i \in 1..Len(more) : After(rows, c, more[i])
         /\ \A n, typed : SparedBy(rows, more, n, typed)
<1>1. ASSUME NEW i \in 1..Len(more)
      PROVE  /\ Meant(rows, y, more[i]) /\ \A c : After(rows, c, more[i])
             /\ \A n, typed : Spares(rows, more[i], n, typed)
  BY <1>1 DEF AllPlain, Plain, Meant, After, Spares, EditorOps
<1> QED
  BY <1>1 DEF AllPlain, IsList, SparedBy


\* An answer that writes rows leaves them so that what may come after it still means the same.
LEMMA WritesKeepAlive ==
  ASSUME PlanInv, ListOK(plot, calls), PlanWrites,
         First1.op \notin {"abolish", "revise", "rollback"}, NEW n, Alive(row, n)
  PROVE  Alive(row', n)
<1>1. EditSaved \/ NodeCreated
  BY DEF PlanWrites, NodeAbolished, Revised, RolledBack, Answers
<1>2. CASE EditSaved
  BY <1>2, EditedRow DEF Alive
<1>3. CASE NodeCreated
  BY <1>3, CreatedRows DEF Alive
<1> QED
  BY <1>1, <1>2, <1>3

LEMMA WritesKeepFaithful ==
  ASSUME PlanInv, ListOK(plot, calls), PlanWrites,
         First1.fresh => Faithful(row, First1.node, First1),
         NEW n, NEW e, Spares(row, First1, n, e.typed), Faithful(row, n, e)
  PROVE  Faithful(row', n, e)
<1>1. n \in Stored /\ n \in Nodes
  BY DEF Faithful, Stored
<1>2. CASE EditSaved
  <2>1. First1.op = "update"
    BY <1>2 DEF EditSaved, Answers
  <2>2. n = First1.node /\ First1.typed \subseteq e.typed /\ Faithful(row, n, First1)
    BY <2>1 DEF Spares, EditorOps
  <2>3. row'[n] # NULL /\ row'[n].name = Sent(First1) /\ row'[n].suffix = First1.letter
    BY <1>2, <2>2, EditedRow
  <2>4. ASSUME NEW f \in Fields(n) \ e.typed
        PROVE  e.text[f] = row'[n].name[f]
    <3>1. f \in AllFields /\ f \in Fields(n) \ First1.typed
      BY <1>1, <2>2, FieldsAreFields
    <3>2. Sent(First1)[f] = First1.text[f]
      BY <2>2, <3>1 DEF Sent
    <3>3. First1.text[f] = row[n].name[f] /\ e.text[f] = row[n].name[f]
      BY <2>2, <3>1 DEF Faithful
    <3> QED
      BY <2>3, <3>2, <3>3
  <2>5. "letter" \notin e.typed => e.letter = row'[n].suffix
    BY <2>2, <2>3 DEF Faithful
  <2> QED
    BY <1>1, <2>3, <2>4, <2>5 DEF Faithful
<1>3. CASE NodeAbolished
  <2>1. n = First1.node
    BY <1>3 DEF NodeAbolished, Answers, Spares, EditorOps
  <2> QED
    BY <1>1, <1>3, <2>1, AbolishedKeepsText, KeptIsFaithful
<1>4. CASE NodeCreated
  <2>1. Alive(row, n)
    BY <1>4 DEF NodeCreated, Answers, Spares
  <2>2. row'[n] = row[n]
    BY <1>1, <1>4, <2>1, CreatedRows
  <2> QED
    BY <2>2 DEF Faithful
<1>5. CASE Revised
  BY <1>1, <1>5, RevisionKeepsText, KeptIsFaithful
<1>6. CASE RolledBack
  BY <1>6 DEF RolledBack, Answers, Spares
<1> QED
  BY <1>2, <1>3, <1>4, <1>5, <1>6 DEF PlanWrites

LEMMA WritesKeepSpares ==
  ASSUME PlanInv, ListOK(plot, calls), PlanWrites, NEW c, After(row, First1, c),
         NEW n, NEW typed, Spares(row, c, n, typed)
  PROVE  Spares(row', c, n, typed)
BY WritesKeepAlive DEF After, Spares

LEMMA WritesKeepMeant ==
  ASSUME PlanInv, ListOK(plot, calls), PlanWrites, NEW y, Meant(row, y, First1),
         NEW c, After(row, First1, c), Meant(row, y, c)
  PROVE  Meant(row', y, c)
<1>1. c.op = "create" => c.node \in Goals \/ Alive(row', c.parent)
  BY WritesKeepAlive DEF After, Meant
<1>2. ASSUME c.fresh PROVE Faithful(row', c.node, c)
  <2>1. Spares(row, First1, c.node, c.typed) /\ Faithful(row, c.node, c)
    BY <1>2 DEF After, Meant
  <2>2. First1.fresh => Faithful(row, First1.node, First1)
    BY DEF Meant
  <2> QED
    BY <2>1, <2>2, WritesKeepFaithful
<1> QED
  BY <1>1, <1>2 DEF Meant

LEMMA WritesKeepAfter ==
  ASSUME PlanInv, ListOK(plot, calls), PlanWrites, NEW c, After(row, First1, c),
         NEW d, After(row, c, d)
  PROVE  After(row', c, d)
BY WritesKeepSpares DEF After

\* The list of requests.
LEMMA PlainKeepsMeant ==
  ASSUME ListOK(plot, calls), CallsMeant(row, viewYear, calls), row' = row, viewYear' = viewYear,
         NEW k \in {0, 1}, SendsPlain(k, viewYear)
  PROVE  CallsMeant(row', viewYear', calls')
<1>1. PICK more : Sends(k, more) /\ AllPlain(viewYear, more)
  BY DEF SendsPlain
<1>2. Carries(calls, k, more, calls') /\ Len(calls) \in Nat
  BY <1>1 DEF Sends, ListOK, IsList
<1>3. /\ \A i \in (k + 1)..Len(calls) : Meant(row', viewYear', calls[i])
      /\ \A i, j \in (k + 1)..Len(calls) : i < j => After(row', calls[i], calls[j])
  <2>1. (k + 1)..Len(calls) \subseteq 1..Len(calls)
    BY <1>2
  <2> QED
    BY <2>1 DEF CallsMeant
<1>4. /\ Len(more) \in Nat /\ \A i \in 1..Len(more) : Meant(row', viewYear', more[i])
      /\ \A c : \A i \in 1..Len(more) : After(row', c, more[i])
  BY <1>1, PlainIsMeant
<1> QED
  BY <1>2, <1>3, <1>4, StillMeant

LEMMA OneKeepsMeant ==
  ASSUME ListOK(plot, calls), CallsMeant(row, viewYear, calls), row' = row, viewYear' = viewYear,
         NEW c, Sends(0, <<c>>), Meant(row, viewYear, c),
         \A i \in 1..Len(calls) : After(row, calls[i], c)
  PROVE  CallsMeant(row', viewYear', calls')
<1> DEFINE more == <<c>>
<1>1. Len(more) = 1 /\ more[1] = c
  BY ShortLists
<1>2. Carries(calls, 0, more, calls') /\ Len(calls) \in Nat
  BY DEF Sends, ListOK, IsList
<1> HIDE DEF more
<1>3. /\ \A i \in (0 + 1)..Len(calls) : Meant(row', viewYear', calls[i])
      /\ \A i, j \in (0 + 1)..Len(calls) : i < j => After(row', calls[i], calls[j])
  BY DEF CallsMeant
<1>4. /\ Len(more) \in Nat /\ \A i \in 1..Len(more) : Meant(row', viewYear', more[i])
      /\ \A i \in (0 + 1)..Len(calls), j \in 1..Len(more) : After(row', calls[i], more[j])
      /\ \A i, j \in 1..Len(more) : i < j => After(row', more[i], more[j])
  BY <1>1
<1> QED
  BY <1>2, <1>3, <1>4, StillMeant

\* The first request, and those after it.
LEMMA FirstIsMeant ==
  ASSUME ListOK(plot, calls), CallsMeant(row, viewYear, calls), calls # <<>>
  PROVE  /\ Len(calls) \in Nat \ {0} /\ Meant(row, viewYear, First1)
         /\ \A i \in (1 + 1)..Len(calls) : After(row, First1, calls[i])
<1>1. Len(calls) \in Nat \ {0}
  BY ListIsShaped, RestIsShaped
<1> QED
  BY <1>1 DEF CallsMeant, First1

LEMMA WritesAnswerFirst ==
  ASSUME ListOK(plot, calls), CallsMeant(row, viewYear, calls), PlanWrites
  PROVE  calls # <<>> /\ viewYear' = viewYear /\ SendsPlain(1, viewYear)
<1>1. calls # <<>>
  BY DEF PlanWrites, EditSaved, NodeAbolished, NodeCreated, Revised, RolledBack, Answers
<1>2. First1.view = viewYear /\ Shaped(calls)
  BY <1>1, FirstIsMeant, ListIsShaped DEF Meant
<1>3. ASSUME EditSaved \/ NodeAbolished \/ RolledBack
      PROVE  viewYear' = viewYear /\ SendsPlain(1, viewYear)
  BY <1>2, <1>3, PlainAnswers DEF EditSaved, NodeAbolished, RolledBack, page
<1>4. ASSUME NodeCreated PROVE viewYear' = viewYear /\ SendsPlain(1, viewYear)
  BY <1>2, <1>4, PlainAnswers DEF NodeCreated
<1>5. ASSUME Revised PROVE viewYear' = viewYear /\ SendsPlain(1, viewYear)
  <2>1. viewYear = NULL /\ viewYear' = NULL
    BY <1>2, <1>5, RevisionIsRevise DEF Revised
  <2> QED
    BY <1>2, <1>5, <2>1, PlainAnswers
<1> QED
  BY <1>1, <1>3, <1>4, <1>5 DEF PlanWrites

LEMMA WritesKeepCalls ==
  ASSUME PlanInv, ListOK(plot, calls), CallsMeant(row, viewYear, calls), PlanWrites
  PROVE  CallsMeant(row', viewYear', calls')
<1>1. viewYear' = viewYear /\ SendsPlain(1, viewYear) /\ calls # <<>>
  BY WritesAnswerFirst
<1>2. /\ Len(calls) \in Nat \ {0} /\ Meant(row, viewYear, First1)
      /\ \A i \in (1 + 1)..Len(calls) : After(row, First1, calls[i])
  BY <1>1, FirstIsMeant
<1>3. PICK more : Sends(1, more) /\ AllPlain(viewYear, more)
  BY <1>1 DEF SendsPlain
<1>4. ASSUME NEW i \in (1 + 1)..Len(calls)
      PROVE  Meant(row', viewYear', calls[i])
  <2>1. Meant(row, viewYear, calls[i])
    BY <1>2 DEF CallsMeant
  <2> QED
    BY <1>1, <1>2, <2>1, WritesKeepMeant
<1>5. ASSUME NEW i \in (1 + 1)..Len(calls), NEW j \in (1 + 1)..Len(calls), i < j
      PROVE  After(row', calls[i], calls[j])
  <2>1. After(row, calls[i], calls[j])
    BY <1>2, <1>5 DEF CallsMeant
  <2> QED
    BY <1>2, <2>1, WritesKeepAfter
<1>6. /\ Len(more) \in Nat /\ \A i \in 1..Len(more) : Meant(row', viewYear', more[i])
      /\ \A c : \A i \in 1..Len(more) : After(row', c, more[i])
  BY <1>1, <1>3, PlainIsMeant
<1>7. Carries(calls, 1, more, calls')
  BY <1>3 DEF Sends
<1> QED
  BY <1>2, <1>4, <1>5, <1>6, <1>7, StillMeant


-----------------------------------------------------------------------------
(* Every action keeps what was meant.                                      *)

AllMeant == CallsMeant(row, viewYear, calls) /\ DraftMeant /\ DialogMeant /\ Viewed

NodesHere == {n \in Stored : IF viewYear = NULL THEN n \in Live ELSE Active(n, viewYear)}
OneOf(S) == CHOOSE v \in S : TRUE
SeenAs(n) == IF viewYear = NULL THEN View(row[n]) ELSE OneOf(Shown(n, viewYear))

LEMMA SameTree ==
  ASSUME row' = row, versions' = versions, viewYear' = viewYear
  PROVE  (TreeOf(viewYear).nodes)' = TreeOf(viewYear).nodes
<1>1. Stored' = Stored /\ Live' = Live
  BY DEF Stored, Live
<1>2. \A n : Active(n, viewYear)' <=> Active(n, viewYear)
  BY <1>1 DEF Active
<1>3. \A n : Shown(n, viewYear)' = Shown(n, viewYear)
  BY <1>2 DEF Shown
<1>4. \A n : SeenAs(n)' = SeenAs(n)
  BY <1>3 DEF SeenAs
<1>5. NodesHere' = NodesHere
  BY <1>1, <1>2 DEF NodesHere
<1>6. TreeOf(viewYear).nodes = [n \in NodesHere |-> SeenAs(n)]
  BY DEF TreeOf, NodesHere, SeenAs, OneOf
<1>7. (TreeOf(viewYear).nodes)' = [n \in NodesHere' |-> SeenAs(n)']
  BY DEF TreeOf, NodesHere, SeenAs, OneOf
<1> QED
  BY <1>4, <1>5, <1>6, <1>7

\* A step that leaves the plan and the year alone and sends nothing that writes the plan.
LEMMA PlainStep ==
  ASSUME ListOK(plot, calls), CallsMeant(row, viewYear, calls),
         row' = row, versions' = versions, viewYear' = viewYear,
         NEW k \in {0, 1}, SendsPlain(k, viewYear)
  PROVE  /\ CallsMeant(row', viewYear', calls')
         /\ \A n, typed : SparedBy(row, calls, n, typed) => SparedBy(row', calls', n, typed)
         /\ LoadPending(calls) /\ (k = 1 => First1.op # "load") => LoadPending(calls')
         /\ (TreeOf(viewYear).nodes)' = TreeOf(viewYear).nodes
<1>1. PICK more : Sends(k, more) /\ AllPlain(viewYear, more)
  BY DEF SendsPlain
<1>2. Carries(calls, k, more, calls') /\ Len(calls) \in Nat
  BY <1>1 DEF Sends, ListOK, IsList
<1>3. Len(more) \in Nat /\ \A n, typed : SparedBy(row', more, n, typed)
  BY <1>1, PlainIsMeant
<1>4. ASSUME NEW n, NEW typed, SparedBy(row, calls, n, typed)
      PROVE  SparedBy(row', calls', n, typed)
  <2>1. \A i \in (k + 1)..Len(calls) : Spares(row', calls[i], n, typed)
    <3>1. (k + 1)..Len(calls) \subseteq 1..Len(calls)
      BY <1>2
    <3> QED
      BY <1>4, <3>1 DEF SparedBy
  <2> QED
    BY <1>2, <1>3, <2>1, StillSpared
<1>5. ASSUME LoadPending(calls), k = 1 => First1.op # "load"
      PROVE  LoadPending(calls')
  BY <1>2, <1>3, <1>5, StillPending DEF First1
<1> QED
  BY <1>4, <1>5, PlainKeepsMeant, SameTree

\* What most actions leave alone.
PageSame ==
  /\ row' = row /\ versions' = versions /\ viewYear' = viewYear /\ planTree' = planTree
  /\ broken' = broken /\ openNode' = openNode /\ draft' = draft /\ dialog' = dialog

LEMMA QuietAreSame ==
  ASSUME ShownOK
  PROVE  /\ \A v : LeaveCell(v) => PageSame /\ dialog = NULL
         /\ \A f, y : ChangeFund(f, y) => PageSame /\ dialog = NULL
         /\ \A i : MoveFund(i) => PageSame /\ dialog = NULL
         /\ RevisionsArrive => PageSame /\ Answers("revisions")
         /\ FundsArrive => PageSame /\ Answers("funds")
         /\ TargetSaved => PageSame /\ Answers("target")
         /\ FundHalfMoved \/ FundMoved => PageSame /\ Answers("move")
         /\ FundChanged => PageSame /\ Answers("fund")
         /\ \A y : SaveEditor(y) \/ AbolishOpen(y) \/ AskRevision(y) => PageSame /\ dialog = NULL
         /\ \A n, y : SubmitDialog(n, y) => PageSame
         /\ \A e : RollBack(e) => PageSame /\ dialog = NULL /\ draft = NULL
<1> DEFINE Rows == row' = row /\ versions' = versions
           Shows == /\ viewYear' = viewYear /\ planTree' = planTree /\ broken' = broken
                    /\ openNode' = openNode /\ draft' = draft /\ dialog' = dialog
<1>1. UNCHANGED services \/ UNCHANGED plan => Rows
  BY DEF services, plan
<1>2. UNCHANGED page => Shows
  BY DEF page
<1>3. Rows /\ Shows => PageSame
  BY DEF PageSame
<1> HIDE DEF Rows, Shows
<1>4. ASSUME NEW v, LeaveCell(v) PROVE PageSame /\ dialog = NULL
  BY <1>1, <1>2, <1>3, <1>4 DEF LeaveCell
<1>5. pageTab \in {"funds", "changes"} => dialog = NULL /\ openNode = NULL
  BY DEF ShownOK
<1>6. openNode = NULL => draft = NULL
  BY PlanScreensAssumption DEF ShownOK, DraftOK
<1>7. ASSUME NEW f, NEW y, ChangeFund(f, y) PROVE PageSame /\ dialog = NULL
  BY <1>1, <1>2, <1>3, <1>5, <1>7 DEF ChangeFund
<1>8. ASSUME NEW i, MoveFund(i) PROVE PageSame /\ dialog = NULL
  BY <1>1, <1>2, <1>3, <1>5, <1>8 DEF MoveFund
<1>9. ASSUME NEW e, RollBack(e) PROVE PageSame /\ dialog = NULL /\ draft = NULL
  BY <1>1, <1>2, <1>3, <1>5, <1>6, <1>9 DEF RollBack
<1>10. ASSUME NEW y, SaveEditor(y) \/ AbolishOpen(y) \/ AskRevision(y)
       PROVE  PageSame /\ dialog = NULL
  BY <1>1, <1>2, <1>3, <1>10 DEF SaveEditor, AbolishOpen, AskRevision
<1>11. ASSUME NEW n, NEW y, SubmitDialog(n, y) PROVE PageSame
  BY <1>1, <1>2, <1>3, <1>11 DEF SubmitDialog
<1>12. RevisionsArrive => PageSame /\ Answers("revisions")
  BY <1>1, <1>3 DEF RevisionsArrive, Shows
<1>13. FundsArrive => PageSame /\ Answers("funds")
  BY <1>1, <1>3 DEF FundsArrive, Shows
<1>14. TargetSaved => PageSame /\ Answers("target")
  BY <1>1, <1>2, <1>3 DEF TargetSaved
<1>15. FundHalfMoved \/ FundMoved => PageSame /\ Answers("move")
  BY <1>1, <1>2, <1>3 DEF FundHalfMoved, FundMoved
<1>16. FundChanged => PageSame /\ Answers("fund")
  BY <1>1, <1>2, <1>3 DEF FundChanged
<1> QED
  BY <1>4, <1>7, <1>8, <1>9, <1>10, <1>11, <1>12, <1>13, <1>14, <1>15, <1>16

\* Such an action, which sends nothing that writes the plan, or an answer to one.
LEMMA QuietKeepsMeant ==
  ASSUME ListOK(plot, calls), AllMeant, PageSame, NEW k \in {0, 1}, SendsPlain(k, viewYear),
         k = 0 => dialog = NULL,
         k = 1 => calls # <<>> /\ First1.op \notin {"create", "load"}
  PROVE  AllMeant'
<1>1. /\ row' = row /\ versions' = versions /\ viewYear' = viewYear /\ planTree' = planTree
      /\ broken' = broken /\ openNode' = openNode /\ draft' = draft /\ dialog' = dialog
  BY DEF PageSame
<1>2. /\ CallsMeant(row', viewYear', calls')
      /\ \A n, typed : SparedBy(row, calls, n, typed) => SparedBy(row', calls', n, typed)
      /\ LoadPending(calls) => LoadPending(calls')
      /\ (TreeOf(viewYear).nodes)' = TreeOf(viewYear).nodes
  BY <1>1, PlainStep DEF AllMeant
<1>3. DraftMeant'
  BY <1>1, <1>2 DEF AllMeant, DraftMeant
<1>4. dialog = NULL
  <2>1. calls # <<>> => Len(calls) \in Nat \ {0}
    BY ListIsShaped, RestIsShaped
  <2> QED
    BY <2>1 DEF AllMeant, DialogMeant, First1
<1>5. DialogMeant'
  BY <1>1, <1>4 DEF DialogMeant
<1>6. Viewed'
  BY <1>1, <1>2 DEF AllMeant, Viewed
<1> QED
  BY <1>2, <1>3, <1>5, <1>6 DEF AllMeant


LEMMA QuietMeant ==
  ASSUME PageInv, AllMeant
  PROVE  /\ \A v : LeaveCell(v) => AllMeant'
         /\ \A f, y : y \in Years /\ ChangeFund(f, y) => AllMeant'
         /\ \A i : MoveFund(i) => AllMeant'
         /\ RevisionsArrive \/ FundsArrive \/ TargetSaved \/ FundHalfMoved => AllMeant'
         /\ FundChanged \/ FundMoved => AllMeant'
<1>1. ShownOK /\ ListOK(plot, calls) /\ Shaped(calls)
  BY ListIsShaped DEF PageInv
<1>2. PageSame => viewYear' = viewYear
  BY DEF PageSame
<1>3. ASSUME PageSame, dialog = NULL, SendsPlain(0, viewYear') PROVE AllMeant'
  BY <1>1, <1>2, <1>3, QuietKeepsMeant
<1>4. ASSUME PageSame, NEW op \in {"revisions", "funds", "target", "move", "fund"}, Answers(op),
             SendsPlain(1, viewYear') \/ SendsPlain(1, First1.view)
      PROVE  AllMeant'
  <2>1. calls # <<>> /\ First1.op = op
    BY <1>4 DEF Answers
  <2>2. First1.view = viewYear
    BY <1>1, <2>1, FirstIsMeant DEF AllMeant, Meant
  <2> QED
    BY <1>1, <1>2, <1>4, <2>1, <2>2, QuietKeepsMeant
<1>5. ASSUME NEW v, LeaveCell(v) PROVE AllMeant'
  BY <1>1, <1>3, <1>5, QuietAreSame, PlainEmissions
<1>6. ASSUME NEW f, NEW y \in Years, ChangeFund(f, y) PROVE AllMeant'
  BY <1>1, <1>3, <1>6, QuietAreSame, PlainEmissions
<1>7. ASSUME NEW i, MoveFund(i) PROVE AllMeant'
  BY <1>1, <1>3, <1>7, QuietAreSame, PlainEmissions
<1>8. RevisionsArrive \/ FundsArrive \/ TargetSaved \/ FundHalfMoved => AllMeant'
  BY <1>1, <1>4, QuietAreSame, PlainAnswers
<1>9. FundChanged \/ FundMoved => AllMeant'
  BY <1>1, <1>4, QuietAreSame, PlainAnswers
<1> QED
  BY <1>5, <1>6, <1>7, <1>8, <1>9

\* On a page with nothing under way, what the tree of the current plan shows is there.
LEMMA SeenIsLive ==
  ASSUME PageInv, Viewed, calls = <<>>, ~broken, viewYear = NULL, NEW n \in DOMAIN planTree.nodes
  PROVE  Alive(row, n) /\ planTree.nodes[n] = View(row[n])
<1>1. ~LoadPending(calls)
  BY EmptyList DEF LoadPending
<1>2. planTree.nodes = TreeOf(NULL).nodes
  BY <1>1 DEF Viewed
<1>3. TreeOf(NULL).nodes = [m \in {m \in Stored : m \in Live} |-> View(row[m])]
  BY DEF TreeOf
<1>4. n \in Live
  BY <1>2, <1>3
<1> QED
  BY <1>2, <1>3, <1>4, AliveIsLive DEF Live

LEMMA NothingSent ==
  ASSUME NEW cs, cs = <<>>, NEW rows, NEW n, NEW typed
  PROVE  SparedBy(rows, cs, n, typed)
BY EmptyList DEF SparedBy

\* The editor.
LEMMA EditorMeant ==
  ASSUME PageInv, AllMeant, ~hasty'
  PROVE  /\ \A n \in Nodes : ToggleEditor(n) => AllMeant'
         /\ \A f \in AllFields : Type(f) => AllMeant'
         /\ \A l \in Letters : TypeLetter(l) => AllMeant'
<1>1. ListOK(plot, calls) /\ Shaped(calls) /\ ShownOK
  BY ListIsShaped DEF PageInv
<1>2. ASSUME row' = row, versions' = versions, viewYear' = viewYear, planTree' = planTree,
             broken' = broken, dialog' = NULL, SendsPlain(0, viewYear'), DraftMeant'
      PROVE  AllMeant'
  <2>1. /\ CallsMeant(row', viewYear', calls')
        /\ LoadPending(calls) => LoadPending(calls')
        /\ (TreeOf(viewYear).nodes)' = TreeOf(viewYear).nodes
    BY <1>1, <1>2, PlainStep DEF AllMeant
  <2>2. DialogMeant'
    BY <1>2 DEF DialogMeant
  <2>3. Viewed'
    BY <1>2, <2>1 DEF AllMeant, Viewed
  <2> QED
    BY <1>2, <2>1, <2>2, <2>3 DEF AllMeant
<1>3. UNCHANGED services => row' = row /\ versions' = versions
  BY DEF services, plan
<1>4. ASSUME NEW n \in Nodes, ToggleEditor(n) PROVE AllMeant'
  <2>1. /\ row' = row /\ versions' = versions /\ viewYear' = viewYear /\ planTree' = planTree
        /\ broken' = broken /\ dialog' = NULL
    BY <1>3, <1>4 DEF ToggleEditor
  <2>2. SendsPlain(0, viewYear')
    BY <1>1, <1>4, PlainEmissions
  <2>3. DraftMeant'
    <3> DEFINE b == calls = <<>> /\ ~ReadOnly /\ ~hasty
    <3>1. CASE openNode = n
      BY <1>4, <3>1 DEF ToggleEditor, DraftMeant
    <3>2. CASE openNode # n
      <4>1. openNode' = n /\ draft' = Captured(planTree, n, b)
        BY <1>4, <3>2 DEF ToggleEditor
      <4>2. n \in DOMAIN planTree.nodes /\ ~broken
        BY <1>4 DEF ToggleEditor, Visible, Usable, Hangs
      <4>3. /\ draft'.text = [f \in Fields(n) |-> planTree.nodes[n].name[f]]
            /\ draft'.letter = planTree.nodes[n].suffix /\ draft'.typed = {} /\ (draft'.fresh <=> b)
        BY <4>1 DEF Captured
      <4>4. ASSUME b
            PROVE  Faithful(row', openNode', draft') /\ SparedBy(row', calls', openNode', draft'.typed)
        <5>1. viewYear = NULL /\ calls = <<>>
          BY <4>4 DEF ReadOnly
        <5>2. Alive(row, n) /\ planTree.nodes[n] = View(row[n])
          BY <4>2, <5>1, SeenIsLive DEF AllMeant
        <5>3. planTree.nodes[n].name = row[n].name /\ planTree.nodes[n].suffix = row[n].suffix
          BY <5>2 DEF View
        <5>4. Faithful(row', openNode', draft')
          BY <2>1, <4>1, <4>3, <5>2, <5>3 DEF Faithful, Alive
        <5>5. SparedBy(row, calls, n, {})
          BY <5>1, NothingSent
        <5>6. SparedBy(row', calls', n, {})
          BY <1>1, <2>1, <2>2, <5>5, PlainStep DEF AllMeant
        <5> QED
          BY <4>1, <4>3, <5>4, <5>6
      <4> HIDE DEF b
      <4> QED
        BY <2>1, <4>3, <4>4 DEF DraftMeant
    <3> QED
      BY <3>1, <3>2
  <2> QED
    BY <1>2, <2>1, <2>2, <2>3
<1>5. ASSUME row' = row, versions' = versions, viewYear' = viewYear, SendsPlain(0, viewYear'),
             openNode' = openNode, dialog' = NULL, draft # NULL,
             draft'.fresh <=> draft.fresh, draft.typed \subseteq draft'.typed,
             \A f \in Fields(openNode) \ draft'.typed : draft'.text[f] = draft.text[f],
             "letter" \notin draft'.typed => draft'.letter = draft.letter
      PROVE  DraftMeant'
  <2> SUFFICES ASSUME draft.fresh
               PROVE  Faithful(row', openNode, draft') /\ SparedBy(row', calls', openNode, draft'.typed)
    BY <1>5 DEF DraftMeant
  <2>1. Faithful(row, openNode, draft) /\ SparedBy(row, calls, openNode, draft.typed)
    BY <1>5 DEF AllMeant, DraftMeant
  <2>2. Faithful(row', openNode, draft')
    BY <1>5, <2>1 DEF Faithful
  <2>3. SparedBy(row, calls, openNode, draft'.typed)
    BY <1>5, <2>1 DEF SparedBy, Spares
  <2>4. SparedBy(row', calls', openNode, draft'.typed)
    BY <1>1, <1>5, <2>3, PlainStep DEF AllMeant
  <2> QED
    BY <2>2, <2>4
<1>6. ASSUME NEW f \in AllFields, Type(f) PROVE AllMeant'
  <2>1. /\ row' = row /\ versions' = versions /\ viewYear' = viewYear /\ planTree' = planTree
        /\ broken' = broken /\ dialog' = NULL /\ openNode' = openNode /\ draft # NULL
    BY <1>3, <1>6 DEF Type, EditorOffers
  <2>2. SendsPlain(0, viewYear')
    BY <1>1, <1>6, PlainEmissions
  <2>3. draft' = [draft EXCEPT !.text[f] = steps + 1, !.typed = @ \cup {f}] /\ f \in Fields(openNode)
    BY <1>6 DEF Type
  <2>4. DraftShape(draft) /\ EditOK(openNode, draft)
    BY <1>1, <2>1 DEF ShownOK, DraftOK
  <2>5. /\ draft'.fresh = draft.fresh /\ draft'.typed = draft.typed \cup {f}
        /\ draft'.letter = draft.letter /\ draft'.text = [draft.text EXCEPT ![f] = steps + 1]
    BY <2>3, <2>4 DEF DraftShape
  <2>6. \A g \in Fields(openNode) \ draft'.typed : draft'.text[g] = draft.text[g]
    BY <2>4, <2>5 DEF EditOK
  <2>7. DraftMeant'
    BY <1>5, <2>1, <2>2, <2>5, <2>6
  <2> QED
    BY <1>2, <2>1, <2>2, <2>7
<1>7. ASSUME NEW l \in Letters, TypeLetter(l) PROVE AllMeant'
  <2>1. /\ row' = row /\ versions' = versions /\ viewYear' = viewYear /\ planTree' = planTree
        /\ broken' = broken /\ dialog' = NULL /\ openNode' = openNode /\ draft # NULL
    BY <1>3, <1>7 DEF TypeLetter, EditorOffers
  <2>2. SendsPlain(0, viewYear')
    BY <1>1, <1>7, PlainEmissions
  <2>3. draft' = [draft EXCEPT !.letter = l, !.typed = @ \cup {"letter"}]
    BY <1>7 DEF TypeLetter
  <2>4. DraftShape(draft)
    BY <1>1, <2>1 DEF ShownOK, DraftOK
  <2>5. /\ draft'.fresh = draft.fresh /\ draft'.typed = draft.typed \cup {"letter"}
        /\ draft'.text = draft.text
    BY <2>3, <2>4 DEF DraftShape
  <2>6. DraftMeant'
    BY <1>5, <2>1, <2>2, <2>5
  <2> QED
    BY <1>2, <2>1, <2>2, <2>6
<1> QED
  BY <1>4, <1>6, <1>7


\* The operations of the requests under way.
LEMMA StillAmong ==
  ASSUME NEW old, NEW k \in {0, 1}, NEW more, NEW new, Carries(old, k, more, new),
         Len(old) \in Nat, Len(more) \in Nat, NEW S,
         \A i \in (k + 1)..Len(old) : old[i].op \in S, \A i \in 1..Len(more) : more[i].op \in S
  PROVE  \A i \in 1..Len(new) : new[i].op \in S
<1>1. Len(new) \in Nat /\ Len(new) = (Len(old) - k) + Len(more) /\ k <= Len(old)
  BY DEF Carries
<1>2. ASSUME NEW i \in 1..Len(new), i <= Len(old) - k
      PROVE  new[i].op \in S
  <2>1. k + i \in (k + 1)..Len(old) /\ Same(old[k + i], new[i])
    BY <1>1, <1>2 DEF Carries
  <2> QED
    BY <2>1 DEF Same
<1>3. ASSUME NEW i \in 1..Len(new), i > Len(old) - k
      PROVE  new[i].op \in S
  <2>1. /\ i - (Len(old) - k) \in 1..Len(more)
        /\ i = (Len(old) - k) + (i - (Len(old) - k))
    BY <1>1, <1>3
  <2>2. new[i] = more[i - (Len(old) - k)]
    BY <2>1 DEF Carries
  <2> QED
    BY <2>1, <2>2
<1> QED
  BY <1>1, <1>2, <1>3

LEMMA SentIsPending ==
  ASSUME NEW old, NEW k \in {0, 1}, NEW more, NEW new, Carries(old, k, more, new),
         Len(old) \in Nat, Len(more) \in Nat, NEW i \in 1..Len(more), more[i].op = "load"
  PROVE  LoadPending(new)
<1>1. /\ (Len(old) - k) + i \in 1..Len(new) /\ new[(Len(old) - k) + i] = more[i]
  BY DEF Carries
<1> QED
  BY <1>1 DEF LoadPending

\* The dialog for a new node, and the tabs.
LEMMA DialogsMeant ==
  ASSUME PageInv, AllMeant, ~hasty'
  PROVE  /\ \A p \in Nodes \cup {"goal"} : OpenDialog(p) => AllMeant'
         /\ CloseDialog => AllMeant'
         /\ \A t : ChangeTab(t) => AllMeant'
<1>1. ListOK(plot, calls) /\ Shaped(calls) /\ ShownOK
  BY ListIsShaped DEF PageInv
<1>2. ASSUME row' = row, versions' = versions, viewYear' = viewYear, planTree' = planTree,
             broken' = broken, SendsPlain(0, viewYear')
      PROVE  /\ CallsMeant(row', viewYear', calls') /\ Viewed'
             /\ \A n, typed : SparedBy(row, calls, n, typed) => SparedBy(row', calls', n, typed)
  <2>1. /\ CallsMeant(row', viewYear', calls')
        /\ LoadPending(calls) => LoadPending(calls')
        /\ (TreeOf(viewYear).nodes)' = TreeOf(viewYear).nodes
        /\ \A n, typed : SparedBy(row, calls, n, typed) => SparedBy(row', calls', n, typed)
    BY <1>1, <1>2, PlainStep DEF AllMeant
  <2>2. Viewed'
    BY <1>2, <2>1 DEF AllMeant, Viewed
  <2> QED
    BY <2>1, <2>2
<1>3. UNCHANGED services => row' = row /\ versions' = versions
  BY DEF services, plan
<1>4. ASSUME NEW p \in Nodes \cup {"goal"}, OpenDialog(p) PROVE AllMeant'
  <2>1. /\ row' = row /\ versions' = versions /\ viewYear' = viewYear /\ planTree' = planTree
        /\ broken' = broken /\ dialog' = p /\ openNode' = openNode /\ draft' = draft /\ calls' = calls
    BY <1>3, <1>4 DEF OpenDialog
  <2>2. SendsPlain(0, viewYear')
    BY <1>1, <1>4, PlainEmissions
  <2>3. calls = <<>> /\ ~broken
    BY <1>4 DEF OpenDialog, Usable
  <2>4. viewYear = NULL
    BY <1>4 DEF OpenDialog, GoalOffers, NodeOffers, StrategyOffers, TaskOffers, SubtaskOffers,
       KpiOffers, KpiGroupOffers, ReadOnly
  <2>5. p # "goal" => p \in DOMAIN planTree.nodes
    BY <1>4 DEF OpenDialog, Visible, Hangs
  <2>6. p # "goal" => Alive(row, p)
    BY <2>3, <2>4, <2>5, SeenIsLive DEF AllMeant
  <2>7. draft # NULL => Alive(row, openNode)
    BY <1>1, <2>3, <2>4, SeenIsLive DEF AllMeant, ShownOK, DraftOK
  <2>8. DraftMeant'
    BY <1>2, <2>1, <2>2, <2>7 DEF AllMeant, DraftMeant
  <2>9. DialogMeant'
    BY <2>1, <2>3, <2>6, EmptyList DEF DialogMeant
  <2> QED
    BY <1>2, <2>1, <2>2, <2>8, <2>9 DEF AllMeant
<1>5. ASSUME CloseDialog PROVE AllMeant'
  <2>1. /\ row' = row /\ versions' = versions /\ viewYear' = viewYear /\ planTree' = planTree
        /\ broken' = broken /\ dialog' = NULL /\ openNode' = openNode /\ draft' = draft
    BY <1>3, <1>5 DEF CloseDialog
  <2>2. SendsPlain(0, viewYear')
    BY <1>1, <1>5, PlainEmissions
  <2>3. DraftMeant' /\ DialogMeant'
    BY <1>2, <2>1, <2>2 DEF AllMeant, DraftMeant, DialogMeant
  <2> QED
    BY <1>2, <2>1, <2>2, <2>3 DEF AllMeant
<1>6. ASSUME NEW t, ChangeTab(t) PROVE AllMeant'
  <2>1. /\ row' = row /\ versions' = versions /\ viewYear' = viewYear /\ planTree' = planTree
        /\ broken' = broken /\ dialog' = NULL /\ draft' = NULL
    BY <1>3, <1>6 DEF ChangeTab
  <2>2. SendsPlain(0, viewYear')
    BY <1>1, <1>6, PlainEmissions
  <2>3. DraftMeant' /\ DialogMeant'
    BY <2>1 DEF DraftMeant, DialogMeant
  <2> QED
    BY <1>2, <2>1, <2>2, <2>3 DEF AllMeant
<1> QED
  BY <1>4, <1>5, <1>6

\* A year is looked up with nothing under way.
LEMMA LookUpMeant ==
  ASSUME PageInv, AllMeant, ~hasty', NEW y, LookUp(y)
  PROVE  AllMeant'
<1>1. ListOK(plot, calls) /\ Shaped(calls)
  BY ListIsShaped DEF PageInv
<1>2. /\ row' = row /\ versions' = versions /\ viewYear' = y /\ planTree' = planTree
      /\ dialog' = NULL /\ openNode' = openNode /\ draft' = draft /\ calls = <<>>
  BY DEF LookUp, services, plan
<1>3. PICK more : Sends(0, more) /\ AllPlain(viewYear', more)
  BY <1>1, PlainEmissions DEF SendsPlain
<1>4. Carries(calls, 0, more, calls') /\ Len(calls) = 0
  BY <1>2, <1>3, EmptyList DEF Sends
<1>5. /\ Len(more) \in Nat /\ \A i \in 1..Len(more) : Meant(row', viewYear', more[i])
      /\ \A c : \A i \in 1..Len(more) : After(row', c, more[i])
      /\ \A n, typed : SparedBy(row', more, n, typed)
  BY <1>3, PlainIsMeant
<1>6. CallsMeant(row', viewYear', calls')
  <2>1. /\ \A i \in (0 + 1)..Len(calls) : Meant(row', viewYear', calls[i])
        /\ \A i, j \in (0 + 1)..Len(calls) : i < j => After(row', calls[i], calls[j])
        /\ \A i \in (0 + 1)..Len(calls), j \in 1..Len(more) : After(row', calls[i], more[j])
    BY <1>4
  <2>2. \A i, j \in 1..Len(more) : i < j => After(row', more[i], more[j])
    BY <1>5
  <2>3. Len(calls) \in Nat
    BY <1>4
  <2> QED
    BY <1>4, <1>5, <2>1, <2>2, <2>3, StillMeant
<1>7. \A n, typed : SparedBy(row', calls', n, typed)
  <2>1. Len(calls) \in Nat /\ \A n, typed : \A i \in (0 + 1)..Len(calls) : Spares(row', calls[i], n, typed)
    BY <1>4
  <2> QED
    BY <1>4, <1>5, <2>1, StillSpared
<1>8. DraftMeant'
  BY <1>2, <1>7 DEF AllMeant, DraftMeant
<1>9. DialogMeant'
  BY <1>2 DEF DialogMeant
<1>10. LoadPending(calls')
  <2> DEFINE two == <<LoadOf("load", y), LoadOf("revisions", y)>>
             third == IF pageTab = "funds" THEN <<LoadOf("funds", y)>> ELSE <<>>
  <2>1. calls' = calls \o (two \o third)
    BY DEF LookUp, Emit
  <2>2. IsList(two) /\ Len(two) = 2 /\ two[1] = LoadOf("load", y) /\ IsList(third)
    BY ShortLists, EmptyList
  <2>3. LoadOf("load", y).op = "load"
    BY DEF LoadOf, Asked
  <2> HIDE DEF two, third
  <2>4. IsList(two \o third)
    BY <2>2, ConcatList
  <2>5. Len(two \o third) = Len(two) + Len(third) /\ Len(third) \in Nat
    BY <2>2, ConcatList DEF IsList
  <2>6. \A i \in 1..Len(two) : (two \o third)[i] = two[i]
    BY <2>2, ConcatList
  <2> DEFINE sent == two \o third
  <2>7. Carries(calls, 0, sent, calls')
    BY <1>1, <2>1, <2>4, SentAfter
  <2>8. sent[1] = LoadOf("load", y) /\ 1 \in 1..Len(sent) /\ Len(sent) \in Nat
    BY <2>2, <2>5, <2>6
  <2> HIDE DEF sent
  <2>9. sent[1].op = "load"
    BY <2>3, <2>8
  <2>10. Len(calls) \in Nat
    BY <1>4
  <2> QED
    BY <2>7, <2>8, <2>9, <2>10, SentIsPending
<1>11. Viewed'
  BY <1>10 DEF Viewed
<1> QED
  BY <1>6, <1>8, <1>9, <1>11 DEF AllMeant

\* After an answer that sends nothing more, the dialog is where it was.
LEMMA DialogStaysMeant ==
  ASSUME ListOK(plot, calls), DialogMeant, calls # <<>>, row' = row,
         calls' = Rest \/ \E ops : calls' = Forsaken(Rest, ops), dialog' = dialog \/ dialog' = NULL
  PROVE  DialogMeant'
<1>s. SUFFICES ASSUME dialog # NULL, dialog' = dialog PROVE DialogMeant'
  BY DEF DialogMeant
<1>1. Shaped(calls) /\ Shaped(Rest) /\ IsList(<<>>) /\ Len(<<>>) = 0
  BY ListIsShaped, RestIsShaped, EmptyList
<1>2. Rest \o <<>> = Rest
  BY <1>1, NothingMore DEF Shaped
<1>3. ASSUME NEW ops
      PROVE  Forsaken(Rest, ops) \o <<>> = Forsaken(Rest, ops)
  <2>1. Shaped(Forsaken(Rest, ops))
    BY <1>1, ForsakenList
  <2> QED
    BY <2>1, NothingMore DEF Shaped
<1>4. Carries(calls, 1, <<>>, calls')
  BY <1>1, <1>2, <1>3, AnsweredAfter
<1>5. Len(calls) \in Nat /\ \A i \in (1 + 1)..Len(calls) : calls[i].op \in {"create", "load"}
  BY <1>s, <1>1 DEF DialogMeant, Shaped, IsList
<1> DEFINE none == <<>>
<1>6. Carries(calls, 1, none, calls') /\ Len(none) = 0
  BY <1>1, <1>4
<1> HIDE DEF none
<1>7. \A i \in 1..Len(calls') : calls'[i].op \in {"create", "load"}
  <2> DEFINE ops == {"create", "load"}
  <2>1. Len(none) \in Nat /\ \A i \in 1..Len(none) : none[i].op \in ops
    BY <1>6
  <2>2. Len(calls) \in Nat /\ \A i \in (1 + 1)..Len(calls) : calls[i].op \in ops
    BY <1>5
  <2> HIDE DEF ops
  <2>3. \A i \in 1..Len(calls') : calls'[i].op \in ops
    BY <1>6, <2>1, <2>2, StillAmong
  <2> QED
    BY <2>3 DEF ops
<1> QED
  BY <1>s, <1>7 DEF DialogMeant

LEMMA TreeMeant ==
  ASSUME PageInv, AllMeant, TreeArrives
  PROVE  AllMeant'
<1>1. ListOK(plot, calls) /\ Shaped(calls) /\ ShownOK
  BY ListIsShaped DEF PageInv
<1>2. /\ row' = row /\ versions' = versions /\ viewYear' = viewYear /\ openNode' = openNode
      /\ broken' = FALSE /\ (dialog' = dialog \/ dialog' = NULL) /\ calls # <<>>
      /\ planTree' = TreeOf(First1.view)
  BY DEF TreeArrives, services, plan, Answers
<1>3. First1.view = viewYear
  BY <1>1, <1>2, FirstIsMeant DEF AllMeant, Meant
<1>4. SendsPlain(1, viewYear)
  BY <1>1, <1>2, PlainAnswers
<1>5. /\ CallsMeant(row', viewYear', calls')
      /\ \A n, typed : SparedBy(row, calls, n, typed) => SparedBy(row', calls', n, typed)
      /\ (TreeOf(viewYear).nodes)' = TreeOf(viewYear).nodes
  BY <1>1, <1>2, <1>4, PlainStep DEF AllMeant
<1>6. Viewed'
  BY <1>2, <1>3, <1>5 DEF Viewed
<1>7. draft' = NULL \/ draft' = draft \/ draft' = Captured(TreeOf(First1.view), openNode, FALSE)
  BY DEF TreeArrives
<1>8. ~Captured(TreeOf(First1.view), openNode, FALSE).fresh
  BY DEF Captured
<1>9. DraftMeant'
  BY <1>2, <1>5, <1>7, <1>8 DEF AllMeant, DraftMeant
<1>10. DialogMeant'
  <2> DEFINE there == openNode # NULL /\ Hangs(TreeOf(First1.view), openNode)
             kept == IF there THEN Rest ELSE Forsaken(Rest, EditorOps)
  <2>1. dialog = NULL => dialog' = NULL
    BY <1>2
  <2>2. ASSUME dialog # NULL PROVE calls' = Rest \/ \E ops : calls' = Forsaken(Rest, ops)
    <3>1. pageTab # "funds"
      BY <1>1, <2>2 DEF ShownOK
    <3>2. calls' = kept \o <<>>
      BY <3>1 DEF TreeArrives
    <3>3. Shaped(Rest) /\ Shaped(Forsaken(Rest, EditorOps))
      BY <1>1, <1>2, RestIsShaped, ForsakenList
    <3>4. IsList(kept)
      BY <3>3 DEF Shaped
    <3>5. kept = Rest \/ kept = Forsaken(Rest, EditorOps)
      OBVIOUS
    <3> HIDE DEF kept
    <3> QED
      BY <3>2, <3>4, <3>5, NothingMore
  <2>3. dialog = NULL => DialogMeant'
    BY <2>1 DEF DialogMeant
  <2> QED
    BY <1>1, <1>2, <2>2, <2>3, DialogStaysMeant DEF AllMeant
<1> QED
  BY <1>5, <1>6, <1>9, <1>10 DEF AllMeant

LEMMA FailureMeant ==
  ASSUME PageInv, AllMeant, CallFails
  PROVE  AllMeant'
<1>1. ListOK(plot, calls) /\ Shaped(calls)
  BY ListIsShaped DEF PageInv
<1>2. /\ row' = row /\ versions' = versions /\ viewYear' = viewYear /\ planTree' = planTree
      /\ calls # <<>> /\ (calls' = Rest \/ \E ops : calls' = Forsaken(Rest, ops))
      /\ (dialog' = dialog \/ dialog' = NULL) /\ ((openNode' = openNode /\ draft' = draft) \/ draft' = NULL)
      /\ (~broken' => ~broken /\ First1.op # "load")
  BY DEF CallFails, services, plan
<1>3. SendsPlain(1, viewYear)
  BY <1>1, <1>2, PlainAnswers
<1>4. /\ CallsMeant(row', viewYear', calls')
      /\ \A n, typed : SparedBy(row, calls, n, typed) => SparedBy(row', calls', n, typed)
      /\ LoadPending(calls) /\ First1.op # "load" => LoadPending(calls')
      /\ (TreeOf(viewYear).nodes)' = TreeOf(viewYear).nodes
  BY <1>1, <1>2, <1>3, PlainStep DEF AllMeant
<1>5. Viewed'
  BY <1>2, <1>4 DEF AllMeant, Viewed
<1>6. DraftMeant'
  BY <1>2, <1>4 DEF AllMeant, DraftMeant
<1>7. DialogMeant'
  BY <1>1, <1>2, DialogStaysMeant DEF AllMeant
<1> QED
  BY <1>4, <1>5, <1>6, <1>7 DEF AllMeant


\* A request that writes the plan is sent.
LEMMA OneKeepsAll ==
  ASSUME ListOK(plot, calls), AllMeant, PageSame, NEW c, Sends(0, <<c>>), Meant(row, viewYear, c),
         \A i \in 1..Len(calls) : After(row, calls[i], c),
         draft # NULL /\ draft.fresh => Spares(row, c, openNode, draft.typed),
         dialog # NULL => c.op = "create"
  PROVE  AllMeant'
<1>1. /\ row' = row /\ versions' = versions /\ viewYear' = viewYear /\ planTree' = planTree
      /\ broken' = broken /\ openNode' = openNode /\ draft' = draft /\ dialog' = dialog
  BY DEF PageSame
<1>2. CallsMeant(row', viewYear', calls')
  BY <1>1, OneKeepsMeant DEF AllMeant
<1> DEFINE more == <<c>>
<1>3. Len(more) = 1 /\ more[1] = c
  BY ShortLists
<1>4. Carries(calls, 0, more, calls') /\ Len(calls) \in Nat
  BY DEF Sends, ListOK, IsList
<1> HIDE DEF more
<1>5. Len(more) \in Nat
  BY <1>3
<1>6. ASSUME draft # NULL, draft.fresh PROVE SparedBy(row', calls', openNode, draft.typed)
  <2>1. \A i \in (0 + 1)..Len(calls) : Spares(row', calls[i], openNode, draft.typed)
    BY <1>1, <1>6 DEF AllMeant, DraftMeant, SparedBy
  <2>2. SparedBy(row', more, openNode, draft.typed)
    BY <1>1, <1>3, <1>6 DEF SparedBy
  <2> QED
    BY <1>4, <1>5, <2>1, <2>2, StillSpared
<1>7. DraftMeant'
  BY <1>1, <1>6 DEF AllMeant, DraftMeant
<1>8. DialogMeant'
  <2>s. SUFFICES ASSUME dialog # NULL PROVE DialogMeant'
    BY <1>1 DEF DialogMeant
  <2> DEFINE ops == {"create", "load"}
  <2>1. \A i \in (0 + 1)..Len(calls) : calls[i].op \in ops
    BY <2>s DEF AllMeant, DialogMeant
  <2>2. \A i \in 1..Len(more) : more[i].op \in ops
    BY <1>3, <2>s
  <2> HIDE DEF ops
  <2>3. \A i \in 1..Len(calls') : calls'[i].op \in ops
    BY <1>4, <1>5, <2>1, <2>2, StillAmong
  <2>4. dialog # "goal" => Alive(row', dialog)
    BY <1>1, <2>s DEF AllMeant, DialogMeant
  <2> QED
    BY <1>1, <2>3, <2>4 DEF DialogMeant, ops
<1>9. LoadPending(calls) => LoadPending(calls')
  BY <1>4, <1>5, StillPending
<1>10. Viewed'
  BY <1>1, <1>9, SameTree DEF AllMeant, Viewed
<1> QED
  BY <1>2, <1>7, <1>8, <1>10 DEF AllMeant

LEMMA EditorCallMeant ==
  ASSUME AllMeant, draft # NULL, NEW op \in EditorOps, NEW y
  PROVE  LET c == EditorCall(op, y)
         IN /\ Meant(row, viewYear, c) /\ \A i \in 1..Len(calls) : After(row, calls[i], c)
            /\ draft.fresh => Spares(row, c, openNode, draft.typed)
<1> DEFINE c == EditorCall(op, y)
<1>1. /\ c.op = op /\ c.view = viewYear /\ c.node = openNode /\ c.text = draft.text
      /\ c.letter = draft.letter /\ c.typed = draft.typed /\ (c.fresh <=> draft.fresh)
  BY EditorCallIs
<1>2. draft.fresh => Faithful(row, openNode, draft) /\ SparedBy(row, calls, openNode, draft.typed)
  BY DEF AllMeant, DraftMeant
<1>3. op # "create" /\ op # "rollback"
  BY DEF EditorOps
<1> HIDE DEF c
<1>4. Meant(row, viewYear, c)
  BY <1>1, <1>2, <1>3 DEF Meant, Faithful
<1>5. ASSUME NEW i \in 1..Len(calls) PROVE After(row, calls[i], c)
  BY <1>1, <1>2, <1>3 DEF After, SparedBy
<1>6. draft.fresh => Spares(row, c, openNode, draft.typed)
  BY <1>1, <1>3 DEF Spares
<1> QED
  BY <1>4, <1>5, <1>6 DEF c

LEMMA RequestsMeant ==
  ASSUME PageInv, AllMeant
  PROVE  /\ \A y : SaveEditor(y) \/ AbolishOpen(y) => AllMeant'
         /\ \A n, y : SubmitDialog(n, y) => AllMeant'
         /\ \A y : AskRevision(y) => AllMeant'
         /\ \A e : RollBack(e) => AllMeant'
<1>1. ListOK(plot, calls) /\ Shaped(calls) /\ ShownOK
  BY ListIsShaped DEF PageInv
<1>2. ASSUME NEW op \in EditorOps, NEW y, draft # NULL, dialog = NULL, PageSame,
             Sends(0, <<EditorCall(op, y)>>)
      PROVE  AllMeant'
  <2> DEFINE c == EditorCall(op, y)
  <2>1. /\ Meant(row, viewYear, c) /\ \A i \in 1..Len(calls) : After(row, calls[i], c)
        /\ draft.fresh => Spares(row, c, openNode, draft.typed)
    BY <1>2, EditorCallMeant
  <2>2. Sends(0, <<c>>)
    BY <1>2
  <2> HIDE DEF c
  <2> QED
    BY <1>1, <1>2, <2>1, <2>2, OneKeepsAll
<1>3. ASSUME NEW y, SaveEditor(y) PROVE AllMeant'
  <2>1. draft # NULL /\ "update" \in EditorOps
    BY <1>3 DEF SaveEditor, EditorOffers, EditorOps
  <2> QED
    BY <1>1, <1>2, <1>3, <2>1, QuietAreSame, PlanEmissions
<1>4. ASSUME NEW y, AbolishOpen(y) PROVE AllMeant'
  <2>1. draft # NULL /\ "abolish" \in EditorOps
    BY <1>4 DEF AbolishOpen, EditorOffers, EditorOps
  <2> QED
    BY <1>1, <1>2, <1>4, <2>1, QuietAreSame, PlanEmissions
<1>5. ASSUME NEW n, NEW y, SubmitDialog(n, y) PROVE AllMeant'
  <2> DEFINE c == CreateCall(n, y)
  <2>1. PageSame /\ Sends(0, <<c>>)
    BY <1>1, <1>5, QuietAreSame, PlanEmissions
  <2>2. c.op = "create" /\ c.node = n /\ c.parent = dialog /\ c.view = viewYear /\ ~c.fresh
    BY CreateCallIs
  <2>3. dialog # NULL /\ n \in NewKind
    BY <1>5 DEF SubmitDialog
  <2>4. n \in Goals \/ Alive(row, dialog)
    BY <1>1, <2>3, NewNodes DEF AllMeant, DialogMeant
  <2> HIDE DEF c
  <2>5. Meant(row, viewYear, c)
    BY <2>2, <2>4 DEF Meant
  <2>6. ASSUME NEW i \in 1..Len(calls) PROVE After(row, calls[i], c)
    BY <2>2, <2>3 DEF AllMeant, DialogMeant, After
  <2>7. draft # NULL /\ draft.fresh => Spares(row, c, openNode, draft.typed)
    BY <2>2, <2>3 DEF AllMeant, DraftMeant, Spares, EditorOps
  <2> QED
    BY <1>1, <2>1, <2>2, <2>5, <2>6, <2>7, OneKeepsAll
<1>6. ASSUME NEW y, AskRevision(y) PROVE AllMeant'
  <2> DEFINE c == ReviseCall(y)
  <2>1. PageSame /\ dialog = NULL /\ Sends(0, <<c>>)
    BY <1>1, <1>6, QuietAreSame, PlanEmissions
  <2>2. c.op = "revise" /\ c.view = viewYear /\ ~c.fresh
    BY OtherCallsAre
  <2> HIDE DEF c
  <2>3. /\ Meant(row, viewYear, c) /\ \A i \in 1..Len(calls) : After(row, calls[i], c)
        /\ Spares(row, c, openNode, draft.typed)
    BY <2>2 DEF Meant, After, Spares, EditorOps
  <2> QED
    BY <1>1, <2>1, <2>3, OneKeepsAll
<1>7. ASSUME NEW e, RollBack(e) PROVE AllMeant'
  <2> DEFINE c == RollBackCall(e)
  <2>1. PageSame /\ dialog = NULL /\ draft = NULL /\ Sends(0, <<c>>)
    BY <1>1, <1>7, QuietAreSame, PlanEmissions
  <2>2. c.op = "rollback" /\ c.view = viewYear /\ ~c.fresh
    BY OtherCallsAre
  <2> HIDE DEF c
  <2>3. Meant(row, viewYear, c) /\ \A i \in 1..Len(calls) : After(row, calls[i], c)
    BY <2>2 DEF Meant, After
  <2> QED
    BY <1>1, <2>1, <2>3, OneKeepsAll
<1> QED
  BY <1>3, <1>4, <1>5, <1>6, <1>7

\* An answer that wrote the plan: the tree is loaded after it.
LEMMA WritesThenLoad ==
  ASSUME ListOK(plot, calls), CallsMeant(row, viewYear, calls), PlanWrites
  PROVE  /\ LoadPending(calls')
         /\ NodeCreated => \E c : c.op = "load" /\ Carries(calls, 1, <<c>>, calls')
<1>1. calls # <<>> /\ Shaped(calls) /\ Len(calls) \in Nat
  BY WritesAnswerFirst, ListIsShaped DEF Shaped, IsList
<1>2. IsList(Rest)
  BY <1>1, RestIsShaped DEF Shaped
<1>3. ASSUME ThenReload PROVE \E c : c.op = "load" /\ Carries(calls, 1, <<c>>, calls')
  <2> DEFINE c == Reload("load", First1.view, First1.op, First1.mine)
  <2>1. calls' = Append(Rest, c)
    BY <1>3 DEF ThenReload, Reload
  <2>2. c.op = "load"
    BY DEF Reload, LoadOf, Asked
  <2> HIDE DEF c
  <2>3. calls' = Rest \o <<c>> /\ IsList(<<c>>)
    BY <1>2, <2>1, AppendList, ShortLists
  <2>4. Carries(calls, 1, <<c>>, calls')
    BY <1>1, <2>3, AnsweredAfter
  <2> QED
    BY <2>2, <2>4
<1>4. ASSUME ThenReload PROVE LoadPending(calls')
  <2>1. PICK c : c.op = "load" /\ Carries(calls, 1, <<c>>, calls')
    BY <1>3, <1>4
  <2> DEFINE more == <<c>>
  <2>2. Len(more) = 1 /\ more[1] = c /\ Carries(calls, 1, more, calls')
    BY <2>1, ShortLists
  <2> HIDE DEF more
  <2>3. 1 \in 1..Len(more) /\ more[1].op = "load" /\ Len(more) \in Nat
    BY <2>1, <2>2
  <2> QED
    BY <1>1, <2>2, <2>3, SentIsPending
<1>5. ASSUME Revised PROVE LoadPending(calls')
  <2> DEFINE c == LoadAfter("load", NULL, "revise")
             more == <<LoadOf("revisions", NULL), c>>
  <2>1. calls' = Rest \o more
    BY <1>5 DEF Revised, LoadAfter
  <2>2. c.op = "load"
    BY DEF LoadAfter, LoadOf, Asked
  <2> HIDE DEF c
  <2>3. IsList(more) /\ Len(more) = 2 /\ more[2] = c
    BY ShortLists
  <2> HIDE DEF more
  <2>4. Carries(calls, 1, more, calls')
    BY <1>1, <2>1, <2>3, AnsweredAfter
  <2>5. 2 \in 1..Len(more) /\ more[2].op = "load" /\ Len(more) \in Nat
    BY <2>2, <2>3
  <2> QED
    BY <1>1, <2>4, <2>5, SentIsPending
<1>6. EditSaved \/ NodeAbolished \/ NodeCreated \/ RolledBack => ThenReload
  BY DEF EditSaved, NodeAbolished, NodeCreated, RolledBack
<1> QED
  BY <1>3, <1>4, <1>5, <1>6 DEF PlanWrites

LEMMA WritesMeant ==
  ASSUME PlanInv, PageInv, AllMeant, PlanWrites
  PROVE  AllMeant'
<1>1. ListOK(plot, calls) /\ CallsMeant(row, viewYear, calls)
  BY DEF PageInv, AllMeant
<1>2. calls # <<>> /\ viewYear' = viewYear /\ SendsPlain(1, viewYear)
  BY <1>1, WritesAnswerFirst
<1>3. /\ Len(calls) \in Nat \ {0} /\ Meant(row, viewYear, First1)
      /\ \A i \in (1 + 1)..Len(calls) : After(row, First1, calls[i])
  BY <1>1, <1>2, FirstIsMeant
<1>4. openNode' = openNode /\ draft' = draft /\ (dialog' = dialog \/ dialog' = NULL)
  BY DEF PlanWrites, EditSaved, NodeAbolished, NodeCreated, Revised, RolledBack, page
<1>5. Viewed'
  BY <1>1, WritesThenLoad DEF Viewed
<1>6. ASSUME dialog # NULL
      PROVE  /\ First1.op = "create" /\ NodeCreated /\ \A n : Alive(row, n) => Alive(row', n)
             /\ \A i \in (1 + 1)..Len(calls) : calls[i].op \in {"create", "load"}
  <2>1. First1.op \in {"create", "load"}
    BY <1>3, <1>6 DEF AllMeant, DialogMeant, First1
  <2>2. NodeCreated /\ First1.op = "create"
    BY <2>1 DEF PlanWrites, EditSaved, NodeAbolished, NodeCreated, Revised, RolledBack, Answers
  <2>3. \A n : Alive(row, n) => Alive(row', n)
    BY <1>1, <2>2, WritesKeepAlive
  <2> QED
    BY <1>3, <1>6, <2>2, <2>3 DEF AllMeant, DialogMeant
<1>7. DraftMeant'
  <2>s. SUFFICES ASSUME draft # NULL, draft.fresh
                 PROVE  /\ Faithful(row', openNode, draft)
                        /\ SparedBy(row', calls', openNode, draft.typed)
                        /\ dialog # NULL => Alive(row', openNode)
    BY <1>4 DEF DraftMeant
  <2>1. /\ Faithful(row, openNode, draft) /\ SparedBy(row, calls, openNode, draft.typed)
        /\ dialog # NULL => Alive(row, openNode)
    BY <2>s DEF AllMeant, DraftMeant
  <2>2. Spares(row, First1, openNode, draft.typed)
    BY <1>3, <2>1 DEF SparedBy, First1
  <2>3. Faithful(row', openNode, draft)
    BY <1>1, <1>3, <2>1, <2>2, WritesKeepFaithful DEF Meant
  <2>4. SparedBy(row', calls', openNode, draft.typed)
    <3>1. PICK more : Sends(1, more) /\ AllPlain(viewYear, more)
      BY <1>2 DEF SendsPlain
    <3>2. Carries(calls, 1, more, calls') /\ Len(calls) \in Nat
      BY <1>3, <3>1 DEF Sends
    <3>3. Len(more) \in Nat /\ SparedBy(row', more, openNode, draft.typed)
      BY <3>1, PlainIsMeant
    <3>4. ASSUME NEW i \in (1 + 1)..Len(calls) PROVE Spares(row', calls[i], openNode, draft.typed)
      <4>1. Spares(row, calls[i], openNode, draft.typed)
        BY <1>3, <2>1 DEF SparedBy
      <4> QED
        BY <1>1, <1>3, <4>1, WritesKeepSpares
    <3> QED
      BY <3>2, <3>3, <3>4, StillSpared
  <2> QED
    BY <1>6, <2>1, <2>3, <2>4
<1>8. DialogMeant'
  <2>s. SUFFICES ASSUME dialog # NULL, dialog' = dialog PROVE DialogMeant'
    BY <1>4 DEF DialogMeant
  <2>1. dialog # "goal" => Alive(row', dialog)
    BY <1>6, <2>s DEF AllMeant, DialogMeant
  <2>2. PICK c : c.op = "load" /\ Carries(calls, 1, <<c>>, calls')
    BY <1>1, <1>6, <2>s, WritesThenLoad
  <2> DEFINE more == <<c>>
             ops == {"create", "load"}
  <2>3. Len(more) = 1 /\ more[1] = c /\ Carries(calls, 1, more, calls')
    BY <2>2, ShortLists
  <2> HIDE DEF more
  <2>4. Len(more) \in Nat /\ \A i \in 1..Len(more) : more[i].op \in ops
    BY <2>2, <2>3
  <2>5. Len(calls) \in Nat /\ \A i \in (1 + 1)..Len(calls) : calls[i].op \in ops
    BY <1>3, <1>6, <2>s
  <2> HIDE DEF ops
  <2>6. \A i \in 1..Len(calls') : calls'[i].op \in ops
    BY <2>3, <2>4, <2>5, StillAmong
  <2> QED
    BY <2>s, <2>1, <2>6 DEF DialogMeant, ops
<1> QED
  BY <1>1, <1>5, <1>7, <1>8, WritesKeepCalls DEF AllMeant


LEMMA HastyStays ==
  ASSUME PlanScreensNext, ~hasty'
  PROVE  ~hasty
<1>1. \A n : ToggleEditor(n) => ~hasty
  BY DEF ToggleEditor
<1>2. \A f : Type(f) => ~hasty
  BY DEF Type
<1>3. \A l : TypeLetter(l) => ~hasty
  BY DEF TypeLetter
<1>4. \A y : SaveEditor(y) \/ AbolishOpen(y) \/ AskRevision(y) => ~hasty
  BY DEF SaveEditor, AbolishOpen, AskRevision
<1>5. \A v : LeaveCell(v) => ~hasty
  BY DEF LeaveCell
<1>6. \A p : OpenDialog(p) => ~hasty
  BY DEF OpenDialog
<1>7. \A n, y : SubmitDialog(n, y) => ~hasty
  BY DEF SubmitDialog
<1>8. CloseDialog => ~hasty
  BY DEF CloseDialog
<1>9. \A t : ChangeTab(t) => ~hasty
  BY DEF ChangeTab
<1>10. \A y : LookUp(y) => ~hasty
  BY DEF LookUp
<1>11. \A e : RollBack(e) => ~hasty
  BY DEF RollBack
<1>12. \A f, y : ChangeFund(f, y) => ~hasty
  BY DEF ChangeFund
<1>13. \A i : MoveFund(i) => ~hasty
  BY DEF MoveFund
<1>14. TreeArrives \/ RevisionsArrive \/ FundsArrive \/ CallFails => ~hasty
  BY DEF TreeArrives, RevisionsArrive, FundsArrive, CallFails
<1>15. EditSaved \/ NodeAbolished \/ NodeCreated \/ Revised \/ RolledBack => ~hasty
  BY DEF EditSaved, NodeAbolished, NodeCreated, Revised, RolledBack
<1>16. TargetSaved \/ FundChanged \/ FundMoved \/ FundHalfMoved => ~hasty
  BY DEF TargetSaved, FundChanged, FundMoved, FundHalfMoved
<1> QED
  BY <1>1, <1>2, <1>3, <1>4, <1>5, <1>6, <1>7, <1>8, <1>9, <1>10, <1>11, <1>12, <1>13, <1>14, <1>15, <1>16
  DEF PlanScreensNext

LEMMA MeantStays ==
  ASSUME PlanInv, PageInv, MeantInv, PlanScreensNext
  PROVE  MeantInv'
<1>s. SUFFICES ASSUME ~hasty' PROVE AllMeant'
  BY DEF MeantInv, AllMeant
<1>1. AllMeant
  BY <1>s, HastyStays DEF MeantInv, AllMeant
<1>2. PlanWrites => AllMeant'
  BY <1>1, WritesMeant
<1>3. \A y : LookUp(y) => AllMeant'
  BY <1>s, <1>1, LookUpMeant
<1>4. TreeArrives \/ CallFails => AllMeant'
  BY <1>1, TreeMeant, FailureMeant
<1> QED
  BY <1>s, <1>1, <1>2, <1>3, <1>4, QuietMeant, EditorMeant, DialogsMeant, RequestsMeant
  DEF PlanScreensNext, PlanWrites

LEMMA InitMeant == PlanScreensInit => MeantInv
<1> SUFFICES ASSUME PlanScreensInit PROVE AllMeant
  BY DEF MeantInv, AllMeant
<1> DEFINE first == <<LoadOf("load", NULL), LoadOf("revisions", NULL)>>
<1>1. calls = first /\ viewYear = NULL /\ draft = NULL /\ dialog = NULL
  BY DEF PlanScreensInit
<1>2. AllPlain(NULL, first)
  BY LoadIsPlain, PlainLists
<1>3. Len(first) = 2 /\ first[1] = LoadOf("load", NULL)
  BY ShortLists
<1>4. LoadOf("load", NULL).op = "load"
  BY DEF LoadOf, Asked
<1> HIDE DEF first
<1>5. CallsMeant(row, viewYear, calls)
  BY <1>1, <1>2, PlainIsMeant DEF CallsMeant
<1>6. first[1].op = "load" /\ 1 \in 1..Len(first)
  BY <1>3, <1>4
<1>7. LoadPending(calls)
  BY <1>1, <1>6 DEF LoadPending
<1> QED
  BY <1>1, <1>5, <1>7 DEF AllMeant, DraftMeant, DialogMeant, Viewed

LEMMA MeantStutters ==
  ASSUME MeantInv, UNCHANGED psvars
  PROVE  MeantInv'
<1>1. /\ row' = row /\ versions' = versions /\ viewYear' = viewYear /\ planTree' = planTree
      /\ broken' = broken /\ openNode' = openNode /\ draft' = draft /\ dialog' = dialog
      /\ calls' = calls /\ hasty' = hasty
  BY DEF psvars, services, plan, page
<1>2. (TreeOf(viewYear).nodes)' = TreeOf(viewYear).nodes
  BY <1>1, SameTree
<1>3. DraftMeant' <=> DraftMeant
  BY <1>1 DEF DraftMeant
<1>4. DialogMeant' <=> DialogMeant
  BY <1>1 DEF DialogMeant
<1>5. Viewed' <=> Viewed
  BY <1>1, <1>2 DEF Viewed
<1> QED
  BY <1>1, <1>3, <1>4, <1>5 DEF MeantInv

LEMMA NextMeant ==
  PlanInv /\ PageInv /\ MeantInv /\ [PlanScreensNext]_psvars => MeantInv'
BY MeantStays, MeantStutters

\* With nothing under way the page shows the plan it names, unless something was looked
\* up or opened while another request was under way.
THEOREM PageShowsPlan == PlanScreensSpec => []TreeIsViewed
<1>1. PageInv /\ MeantInv => TreeIsViewed
  BY EmptyList DEF MeantInv, Viewed, LoadPending, TreeIsViewed
<1> QED
  BY <1>1, InitPage, InitMeant, PageSteps, NextMeant, PTL DEF PlanScreensSpec

\* An editor sends back every field it shows; when it was opened on the plan as it was,
\* the fields that were not typed, and a letter that was not, are those of the row they
\* are saved to, although other requests were answered in between.
KeepsRest ==
  EditSaved /\ First1.fresh /\ ~hasty =>
    \A n \in {First1.node} :
      /\ \A f \in AllFields \ First1.typed : row'[n].name[f] = row[n].name[f]
      /\ "letter" \notin First1.typed => row'[n].suffix = row[n].suffix

LEMMA FaithfulEdit == PlanInv /\ PageInv /\ MeantInv => KeepsRest
<1> SUFFICES ASSUME PlanInv, PageInv, MeantInv, EditSaved, First1.fresh, ~hasty
             PROVE  /\ \A f \in AllFields \ First1.typed :
                         row'[First1.node].name[f] = row[First1.node].name[f]
                    /\ "letter" \notin First1.typed => row'[First1.node].suffix = row[First1.node].suffix
  BY DEF KeepsRest
<1> DEFINE n == First1.node
<1>1. ListOK(plot, calls) /\ calls # <<>>
  BY DEF PageInv, EditSaved, Answers
<1>2. Faithful(row, n, First1)
  BY <1>1, FirstIsMeant DEF MeantInv, Meant
<1>3. row'[n].name = Sent(First1) /\ row'[n].suffix = First1.letter
  BY <1>1, EditedRow
<1>4. ASSUME NEW f \in AllFields \ First1.typed
      PROVE  row'[n].name[f] = row[n].name[f]
  <2>1. Sent(First1)[f] = IF f \in Fields(n) THEN First1.text[f] ELSE row[n].name[f]
    BY DEF Sent
  <2> QED
    BY <1>2, <1>3, <2>1 DEF Faithful
<1>5. "letter" \notin First1.typed => row'[n].suffix = row[n].suffix
  BY <1>2, <1>3 DEF Faithful
<1> QED
  BY <1>4, <1>5

\* An editor sends a whole node; if it was opened on the plan as it was, the names and the
\* letter that were not typed are those the node has when the request is served.
THEOREM EditsKeepRest == PlanScreensSpec => EditKeepsRest
<1>1. PlanInv /\ PageInv /\ MeantInv /\ [PlanScreensNext]_psvars => [KeepsRest]_psvars
  BY FaithfulEdit
<1>2. [][KeepsRest]_psvars => EditKeepsRest
  BY PTL DEF KeepsRest, EditKeepsRest
<1> QED
  BY <1>1, <1>2, InitPage, InitMeant, PageSteps, NextMeant, PTL DEF PlanScreensSpec

-----------------------------------------------------------------------------
(* The page keeps the live plan a tree.                                    *)

TreeKept == ~hasty /\ "rollback" \notin plot.may["changes"] => TreeInv

LEMMA SameRowsSameTree ==
  ASSUME row' = row, TreeInv
  PROVE  TreeInv'
<1>1. Stored' = Stored /\ Live' = Live
  BY DEF Stored, Live
<1> QED
  BY <1>1 DEF TreeInv, ParentsOfKind, LivePlanIsTree, ParentsLive, AncestorsAgree, SuffixesDistinct,
     LiveSiblings, Under

LEMMA PlotStays ==
  ASSUME ListOK(plot, calls), PlanScreensNext
  PROVE  plot' = plot
<1>1. Shaped(calls)
  BY ListIsShaped
<1>2. \A k, y : SendsPlain(k, y) => plot' = plot
  BY DEF SendsPlain, Sends
<1>3. \A c : Sends(0, <<c>>) => plot' = plot
  BY DEF Sends
<1> QED
  BY <1>1, <1>2, <1>3, PlainEmissions, PlainAnswers, PlanEmissions DEF PlanScreensNext

LEMMA TreeStays ==
  ASSUME PlanInv, PageInv, MeantInv, TreeKept, PlanScreensNext
  PROVE  TreeKept'
<1>s. SUFFICES ASSUME ~hasty', "rollback" \notin plot'.may["changes"] PROVE TreeInv'
  BY DEF TreeKept
<1>1. ListOK(plot, calls)
  BY DEF PageInv
<1>2. ~hasty /\ plot' = plot /\ TreeInv /\ TypeOK /\ KpisHaveLetters
  BY <1>s, <1>1, HastyStays, PlotStays DEF TreeKept, PlanInv, HistoryInv
<1>3. CASE EditSaved
  BY <1>1, <1>2, <1>3, EditIsUpdate, EditKeepsTree
<1>4. CASE NodeAbolished
  BY <1>1, <1>2, <1>4, AbolitionIsAbolish, EditKeepsTree
<1>5. CASE NodeCreated
  <2>1. /\ First1.year \in Years /\ First1.node \in Nodes /\ First1.text \in Names
        /\ \E p \in Nodes : /\ First1.node \in Goals \/ p = First1.parent
                            /\ CreateNode(First1.node, First1.text, p, First1.year)
    BY <1>1, <1>5, CreationIsCreate
  <2>2. First1.op = "create" /\ calls # <<>>
    BY <1>5 DEF NodeCreated, Answers
  <2>3. First1.node \in Goals \/ First1.parent \in Live
    BY <1>1, <1>2, <2>2, FirstIsMeant, AliveIsLive DEF MeantInv, Meant
  <2>4. CarefulCreate(First1.year)
    BY <2>1, <2>3 DEF CarefulCreate
  <2> QED
    BY <1>2, <2>1, <2>4, EditKeepsTree
<1>6. CASE Revised
  <2>1. First1.year \in Years /\ (Revise(First1.year) \/ UNCHANGED plan)
    BY <1>1, <1>6, RevisionIsRevise
  <2>2. UNCHANGED plan => row' = row
    BY DEF plan
  <2> QED
    BY <1>2, <2>1, <2>2, EditKeepsTree, SameRowsSameTree
<1>7. CASE RolledBack
  <2>1. CallOK(plot, First1) /\ First1.op = "rollback"
    BY <1>1, <1>7, FirstIsOK DEF RolledBack
  <2> QED
    BY <1>s, <1>2, <2>1 DEF CallOK
<1>8. CASE UNCHANGED plan
  <2>1. row' = row
    BY <1>8 DEF plan
  <2> QED
    BY <1>2, <2>1, SameRowsSameTree
<1> QED
  BY <1>3, <1>4, <1>5, <1>6, <1>7, <1>8, OthersKeepPlan DEF PlanWrites

LEMMA NextTree ==
  PlanInv /\ PageInv /\ MeantInv /\ TreeKept /\ [PlanScreensNext]_psvars => TreeKept'
<1>1. ASSUME TreeKept, UNCHANGED psvars PROVE TreeKept'
  <2>1. row' = row /\ hasty' = hasty /\ plot' = plot
    BY <1>1 DEF psvars, services, plan
  <2> QED
    BY <1>1, <2>1, SameRowsSameTree DEF TreeKept
<1> QED
  BY <1>1, TreeStays

\* An administrator who opens nothing while a request is under way, and rolls nothing
\* back, keeps the live plan a tree from the page, although no service looks whether the
\* parent of a new node is live.
THEOREM PageKeepsTree == PlanScreensSpec => []PlanStaysTree
<1>1. TreeKept => PlanStaysTree
  BY DEF TreeKept, TreeInv, PlanStaysTree
<1>2. PlanScreensInit => TreeKept
  BY InitPage, InitTree DEF TreeKept
<1> QED
  BY <1>1, <1>2, InitPage, InitMeant, PageSteps, NextMeant, NextTree, PTL DEF PlanScreensSpec


-----------------------------------------------------------------------------
(* The list of funds.                                                      *)

FundRowsOK(rows) == rows \in [Funds -> FundRecord \cup {NULL}]
StoredIn(rows) == {f \in Funds : rows[f] # NULL}
FundsIn(rows, y) == {f \in Funds : rows[f] # NULL
                       /\ (y # NULL => ActiveAt(rows[f].from, rows[f].abolished, y))}
FundsBefore(rows, R, f) == {g \in R : \/ rows[g].order < rows[f].order
                                      \/ rows[g].order = rows[f].order /\ g < f}
FundAt(rows, R, i) == CHOOSE f \in R : Cardinality(FundsBefore(rows, R, f)) = i - 1
FundList(rows, R) == [i \in 1..Cardinality(R) |-> FundAt(rows, R, i)]

LEMMA FundListIs ==
  ASSUME NEW y
  PROVE  FundsOf(y) = FundList(fundRow, FundsIn(fundRow, y))
BY DEF FundsOf, FundList, FundAt, FundsBefore, FundsIn

LEMMA StoredFundsAre ==
  ASSUME NEW rows, FundRowsOK(rows), NEW y
  PROVE  /\ StoredIn(rows) \subseteq Funds /\ FundsIn(rows, y) \subseteq StoredIn(rows)
         /\ FundsIn(rows, NULL) = StoredIn(rows)
         /\ \A f \in StoredIn(rows) : rows[f] \in FundRecord /\ rows[f].order \in Nat /\ f \in Nat
         /\ IsFiniteSet(StoredIn(rows)) /\ IsFiniteSet(FundsIn(rows, y))
         /\ Cardinality(StoredIn(rows)) \in Nat
         /\ Cardinality(FundsIn(rows, y)) \in 0..Cardinality(StoredIn(rows))
<1>1. /\ StoredIn(rows) \subseteq Funds /\ FundsIn(rows, y) \subseteq StoredIn(rows)
      /\ FundsIn(rows, NULL) = StoredIn(rows)
  BY DEF StoredIn, FundsIn
<1>2. \A f \in StoredIn(rows) : rows[f] \in FundRecord /\ rows[f].order \in Nat /\ f \in Nat
  BY PlanScreensAssumption DEF StoredIn, FundRowsOK, FundRecord
<1>3. /\ IsFiniteSet(StoredIn(rows)) /\ IsFiniteSet(FundsIn(rows, y))
      /\ Cardinality(FundsIn(rows, y)) <= Cardinality(StoredIn(rows))
  BY <1>1, FS_Subset, PlanScreensAssumption
<1>4. Cardinality(StoredIn(rows)) \in Nat /\ Cardinality(FundsIn(rows, y)) \in Nat
  BY <1>3, FS_CardinalityType
<1> QED
  BY <1>1, <1>2, <1>3, <1>4

LEMMA FundsAreOrdered ==
  ASSUME NEW rows, FundRowsOK(rows), NEW R \in SUBSET StoredIn(rows)
  PROVE  Orders([f \in R |-> FundsBefore(rows, R, f)], R)
<1> DEFINE B == [f \in R |-> FundsBefore(rows, R, f)]
<1>1. \A f \in R : rows[f].order \in Nat /\ f \in Nat
  BY StoredFundsAre
<1>2. \A f, g \in R : g \in B[f] <=> \/ rows[g].order < rows[f].order
                                     \/ rows[g].order = rows[f].order /\ g < f
  BY DEF FundsBefore
<1>3. B \in [R -> SUBSET R]
  BY DEF FundsBefore
<1> HIDE DEF B
<1>4. \A f \in R : f \notin B[f]
  BY <1>1, <1>2
<1>5. \A f, g \in R : f # g => f \in B[g] \/ g \in B[f]
  BY <1>1, <1>2
<1>6. \A f, g, h \in R : f \in B[g] /\ g \in B[h] => f \in B[h]
  BY <1>1, <1>2
<1>7. Orders(B, R)
  BY <1>3, <1>4, <1>5, <1>6 DEF Orders
<1> QED
  BY <1>7 DEF B

LEMMA FundsAreListed ==
  ASSUME NEW rows, FundRowsOK(rows), NEW R \in SUBSET StoredIn(rows)
  PROVE  /\ IsList(FundList(rows, R)) /\ Len(FundList(rows, R)) = Cardinality(R)
         /\ \A i \in 1..Cardinality(R) :
              /\ FundList(rows, R)[i] \in R
              /\ Cardinality(FundsBefore(rows, R, FundList(rows, R)[i])) = i - 1
<1> DEFINE B == [f \in R |-> FundsBefore(rows, R, f)]
           n == Cardinality(R)
           s == FundList(rows, R)
<1>1. IsFiniteSet(R)
  BY StoredFundsAre, FS_Subset
<1>2. Orders(B, R)
  BY FundsAreOrdered
<1>3. n \in Nat /\ \A k \in 0..(n - 1) : \E f \in R : Cardinality(B[f]) = k
  <2> HIDE DEF B
  <2> QED
    BY <1>1, <1>2, PlacesRun
<1>4. s = [i \in 1..n |-> s[i]]
  BY DEF FundList
<1>5. IsList(s) /\ Len(s) = n
  <2> HIDE DEF s, n
  <2> QED
    BY <1>3, <1>4, FunctionIsList
<1>6. ASSUME NEW i \in 1..n
      PROVE  s[i] \in R /\ Cardinality(FundsBefore(rows, R, s[i])) = i - 1
  <2>1. s[i] = FundAt(rows, R, i)
    BY DEF FundList
  <2>2. \E f \in R : Cardinality(FundsBefore(rows, R, f)) = i - 1
    <3>1. i - 1 \in 0..(n - 1)
      BY <1>3
    <3> QED
      BY <1>3, <3>1
  <2> QED
    BY <2>1, <2>2 DEF FundAt
<1> QED
  BY <1>5, <1>6


\* As many funds as there are, with the orders 0, 1, ...: the list is what is listed.
LEMMA SortedIsListed ==
  ASSUME NEW rows, FundRowsOK(rows), NEW R \in SUBSET StoredIn(rows),
         NEW s, IsList(s), Len(s) = Cardinality(R),
         \A i \in 1..Cardinality(R) : s[i] \in R /\ rows[s[i]].order = i - 1
  PROVE  FundList(rows, R) = s
<1> DEFINE n == Cardinality(R)
           l == FundList(rows, R)
           Ahead(f) == FundsBefore(rows, R, f)
<1>1. IsFiniteSet(R) /\ n \in Nat
  BY StoredFundsAre, FS_Subset, FS_CardinalityType
<1>2. IsFiniteSet(1..n) /\ Cardinality(1..n) = n
  <2> HIDE DEF n
  <2>1. 1 \in Int /\ n \in Int
    BY <1>1
  <2>2. IsFiniteSet(1..n) /\ Cardinality(1..n) = IF 1 > n THEN 0 ELSE n - 1 + 1
    BY <2>1, FS_Interval
  <2> QED
    BY <1>1, <2>2
<1>3. \A i, j \in 1..n : s[i] = s[j] => i = j
  BY <1>1
<1>4. s \in Injection(1..n, R) /\ s = [i \in 1..n |-> s[i]]
  BY <1>3 DEF Injection, IsInjective, IsList
<1>5. s \in Surjection(1..n, R)
  BY <1>1, <1>2, <1>4, FS_Injection
<1>6. \A f \in R : \E i \in 1..n : f = s[i]
  BY <1>5 DEF Surjection
<1>7. ASSUME NEW i \in 1..n
      PROVE  Cardinality(Ahead(s[i])) = i - 1
  <2> DEFINE first == [j \in 1..(i - 1) |-> s[j]]
  <2>1. \A j \in 1..n : s[j] \in Ahead(s[i]) <=> j < i
    <3>1. ASSUME NEW j \in 1..n
          PROVE  s[j] \in Ahead(s[i]) <=> j < i
      <4>1. /\ s[j] \in R /\ s[i] \in R
            /\ rows[s[j]].order = j - 1 /\ rows[s[i]].order = i - 1
        OBVIOUS
      <4>2. s[j] \in Nat /\ s[i] \in Nat
        BY <4>1, StoredFundsAre
      <4>3. s[j] \in Ahead(s[i]) <=> j - 1 < i - 1 \/ (j - 1 = i - 1 /\ s[j] < s[i])
        BY <4>1 DEF FundsBefore
      <4>4. CASE j = i
        BY <1>1, <4>2, <4>3, <4>4
      <4>5. CASE j # i
        BY <1>1, <4>2, <4>3, <4>5
      <4> QED
        BY <4>4, <4>5
    <3> QED
      BY <3>1
  <2>2. Ahead(s[i]) \subseteq R
    BY DEF FundsBefore
  <2> HIDE DEF n, Ahead
  <2>3. i \in Int /\ 1..(i - 1) \subseteq 1..n /\ \A j \in 1..(i - 1) : j < i
    BY <1>1
  <2>4. first \in [1..(i - 1) -> Ahead(s[i])]
    BY <2>1, <2>3
  <2>5. \A f \in Ahead(s[i]) : \E j \in 1..(i - 1) : first[j] = f
    <3>1. ASSUME NEW f \in Ahead(s[i])
          PROVE  \E j \in 1..(i - 1) : first[j] = f
      <4>1. PICK j \in 1..n : f = s[j]
        BY <1>6, <2>2
      <4>2. j < i
        BY <2>1, <4>1
      <4>3. j \in 1..(i - 1)
        BY <1>1, <4>2
      <4> QED
        BY <4>1, <4>3
    <3> QED
      BY <3>1
  <2>6. \A j, k \in 1..(i - 1) : first[j] = first[k] => j = k
    BY <1>3, <2>3
  <2> HIDE DEF first
  <2>7. first \in Bijection(1..(i - 1), Ahead(s[i]))
    BY <2>4, <2>5, <2>6 DEF Bijection, Injection, IsInjective, Surjection
  <2>8. ExistsBijection(1..(i - 1), Ahead(s[i]))
    BY <2>7 DEF ExistsBijection
  <2>9. IsFiniteSet(1..(i - 1)) /\ Cardinality(1..(i - 1)) = i - 1
    <3>1. 1 \in Int /\ i - 1 \in Int
      BY <2>3
    <3>2. /\ IsFiniteSet(1..(i - 1))
          /\ Cardinality(1..(i - 1)) = IF 1 > i - 1 THEN 0 ELSE (i - 1) - 1 + 1
      BY <3>1, FS_Interval
    <3>3. i >= 1
      BY <1>1
    <3> QED
      BY <2>3, <3>2, <3>3
  <2> QED
    BY <2>8, <2>9, FS_Bijection
<1>8. \A i \in 1..n : l[i] \in R /\ Cardinality(Ahead(l[i])) = i - 1
  BY FundsAreListed
<1>9. \A f, g \in R : Cardinality(Ahead(f)) = Cardinality(Ahead(g)) => f = g
  <2> DEFINE B == [f \in R |-> Ahead(f)]
  <2>1. Orders(B, R)
    BY FundsAreOrdered
  <2>2. \A f \in R : B[f] = Ahead(f)
    OBVIOUS
  <2> HIDE DEF B
  <2> QED
    BY <1>1, <2>1, <2>2, PlacesRun
<1>10. \A i \in 1..n : l[i] = s[i]
  BY <1>7, <1>8, <1>9
<1>11. l = [i \in 1..n |-> l[i]]
  BY DEF FundList
<1> QED
  BY <1>4, <1>10, <1>11


\* What a move makes of the rows.
WithOrder(r, n) == [r EXCEPT !.order = n]

LEMMA PlacedRows ==
  ASSUME FundRowsOK(fundRow), NEW i \in Nat \ {0}, NEW two,
         two[1] \in StoredIn(fundRow), two[2] \in StoredIn(fundRow)
  PROVE  LET rows == Placed(two, i)
         IN /\ FundRowsOK(rows) /\ StoredIn(rows) = StoredIn(fundRow)
            /\ \A f \in StoredIn(fundRow) :
                 rows[f].order = IF f = two[1] THEN i ELSE IF f = two[2] THEN i - 1 ELSE fundRow[f].order
<1> DEFINE rows == Placed(two, i)
<1>1. \A f \in Funds : rows[f] = IF f = two[1] THEN WithOrder(fundRow[f], i)
                                 ELSE IF f = two[2] THEN WithOrder(fundRow[f], i - 1) ELSE fundRow[f]
  BY DEF Placed, WithOrder
<1>2. rows = [f \in Funds |-> rows[f]]
  BY DEF Placed
<1>3. ASSUME NEW r \in FundRecord, NEW n \in Nat
      PROVE  WithOrder(r, n) \in FundRecord /\ WithOrder(r, n).order = n
  BY DEF FundRecord, WithOrder
<1>4. i \in Nat /\ i - 1 \in Nat
  OBVIOUS
<1>5. \A f \in StoredIn(fundRow) : fundRow[f] \in FundRecord
  BY StoredFundsAre
<1> HIDE DEF rows
<1>6. \A f \in Funds : rows[f] = fundRow[f] \/ (f \in StoredIn(fundRow) /\ rows[f] \in FundRecord)
  BY <1>1, <1>3, <1>4, <1>5
<1>7. \A f \in StoredIn(fundRow) :
        rows[f].order = IF f = two[1] THEN i ELSE IF f = two[2] THEN i - 1 ELSE fundRow[f].order
  <2> SUFFICES ASSUME NEW f \in StoredIn(fundRow)
               PROVE  rows[f].order = IF f = two[1] THEN i ELSE IF f = two[2] THEN i - 1 ELSE fundRow[f].order
    OBVIOUS
  <2>1. f \in Funds /\ fundRow[f] \in FundRecord
    BY <1>5 DEF StoredIn
  <2>2. WithOrder(fundRow[f], i).order = i /\ WithOrder(fundRow[f], i - 1).order = i - 1
    BY <1>3, <1>4, <2>1
  <2> QED
    BY <1>1, <2>1, <2>2
<1>8. FundRowsOK(rows)
  BY <1>2, <1>6 DEF FundRowsOK
<1>9. StoredIn(rows) = StoredIn(fundRow)
  BY <1>6, PlanScreensAssumption DEF StoredIn
<1> QED
  BY <1>7, <1>8, <1>9 DEF rows

FundCallOK(rows, c) ==
  /\ c.op = "fund" => c.year \in Years
  /\ c.op = "move" => /\ c.node \in 1..(Cardinality(StoredIn(rows)) - 1)
                      /\ c.text[1] \in StoredIn(rows) /\ c.text[2] \in StoredIn(rows)

FundListOK(rows, l) ==
  /\ Len(l) \in 0..Cardinality(StoredIn(rows))
  /\ \A i \in 1..Len(l) : l[i] \in StoredIn(rows)

\* Funds are never forgotten, so what was sent can still be done.
FundsInv ==
  /\ FundRowsOK(fundRow) /\ FundListOK(fundRow, fundList)
  /\ \A i \in 1..Len(calls) : FundCallOK(fundRow, calls[i])

Swapped(l, i) == [l EXCEPT ![i] = l[i + 1], ![i + 1] = l[i]]

MoveSwaps ==
  FundMoved /\ fundList = FundsOf(NULL)
    /\ First1.text = <<fundList[First1.node], fundList[First1.node + 1]>>
    /\ (\A i \in 1..Len(fundList) : fundRow[fundList[i]].order = i - 1) =>
  LET i == First1.node
  IN FundsOf(NULL)' = [fundList EXCEPT ![i] = fundList[i + 1], ![i + 1] = fundList[i]]

LEMMA MovesSwap == PageInv /\ FundsInv => MoveSwaps
<1> SUFFICES ASSUME PageInv, FundsInv, FundMoved, fundList = FundsOf(NULL),
                    First1.text = <<fundList[First1.node], fundList[First1.node + 1]>>,
                    \A i \in 1..Len(fundList) : fundRow[fundList[i]].order = i - 1
             PROVE  FundsOf(NULL)' = Swapped(fundList, First1.node)
  BY DEF MoveSwaps, Swapped
<1> DEFINE i == First1.node
           R == StoredIn(fundRow)
           n == Cardinality(R)
           a == fundList[i]
           b == fundList[i + 1]
           s == Swapped(fundList, i)
<1>1. FundRowsOK(fundRow) /\ FundsIn(fundRow, NULL) = R /\ IsFiniteSet(R) /\ n \in Nat
  BY StoredFundsAre DEF FundsInv
<1>2. /\ fundList = FundList(fundRow, R)
      /\ IsList(fundList) /\ Len(fundList) = n /\ \A m \in 1..n : fundList[m] \in R
  BY <1>1, FundListIs, FundsAreListed
<1>3. i \in 1..(n - 1)
  <2>1. Answers("move") /\ ListOK(plot, calls)
    BY DEF FundMoved, PageInv
  <2>2. 1 \in 1..Len(calls) /\ First1.op = "move"
    BY <2>1, FirstIsOK
  <2> QED
    BY <2>2 DEF FundsInv, FundCallOK, First1
<1>4. i \in Nat \ {0} /\ i \in 1..n /\ i + 1 \in 1..n /\ i # i + 1
  BY <1>1, <1>3
<1>5. First1.text[1] = a /\ First1.text[2] = b /\ a \in R /\ b \in R
  BY <1>2, <1>4
<1>6. /\ FundRowsOK(fundRow') /\ StoredIn(fundRow') = R
      /\ \A f \in R : fundRow'[f].order = IF f = a THEN i ELSE IF f = b THEN i - 1 ELSE fundRow[f].order
  <2>1. fundRow' = Placed(First1.text, i)
    BY DEF FundMoved
  <2> QED
    BY <1>1, <1>4, <1>5, <2>1, PlacedRows
<1>7. \A m \in 1..n : fundRow[fundList[m]].order = m - 1
  BY <1>2
<1>8. \A m \in 1..n : s[m] = IF m = i + 1 THEN a ELSE IF m = i THEN b ELSE fundList[m]
  BY <1>2, <1>4 DEF Swapped, IsList
<1>9. s = [m \in 1..n |-> s[m]]
  BY <1>2 DEF Swapped, IsList
<1> HIDE DEF s, n, R, a, b, i
<1>10. ASSUME NEW m \in 1..n
       PROVE  s[m] \in R /\ fundRow'[s[m]].order = m - 1
  <2>1. fundRow[a].order = i - 1 /\ fundRow[b].order = i
    BY <1>4, <1>7 DEF a, b
  <2>2. CASE m = i + 1
    BY <1>4, <1>5, <1>6, <1>8, <2>2
  <2>3. CASE m = i
    BY <1>4, <1>5, <1>6, <1>8, <2>1, <2>3
  <2>4. CASE m # i /\ m # i + 1
    <3>1. s[m] = fundList[m] /\ fundList[m] \in R /\ fundRow[fundList[m]].order = m - 1
      BY <1>2, <1>7, <1>8, <2>4
    <3>2. fundList[m] # a /\ fundList[m] # b
      BY <1>4, <2>1, <2>4, <3>1
    <3> QED
      BY <1>6, <3>1, <3>2
  <2> QED
    BY <2>2, <2>3, <2>4
<1>11. FundList(fundRow', R) = s
  <2> DEFINE rows == fundRow'
  <2>1. FundRowsOK(rows) /\ R \in SUBSET StoredIn(rows)
    BY <1>6
  <2>2. \A m \in 1..n : s[m] \in R /\ rows[s[m]].order = m - 1
    BY <1>10
  <2>3. IsList(s) /\ Len(s) = n
    BY <1>1, <1>9, FunctionIsList
  <2> HIDE DEF rows
  <2>4. FundList(rows, R) = s
    BY <2>1, <2>2, <2>3, SortedIsListed DEF n
  <2> QED
    BY <2>4 DEF rows
<1>12. FundsIn(fundRow', NULL) = R
  BY <1>6, StoredFundsAre
<1>13. FundsOf(NULL)' = FundList(fundRow', FundsIn(fundRow', NULL))
  BY DEF FundsOf, FundList, FundAt, FundsBefore, FundsIn
<1> QED
  BY <1>11, <1>12, <1>13 DEF s, i


LEMMA PlainFundCall ==
  ASSUME FundsInv, NEW y, NEW c, Plain(y, c)
  PROVE  FundCallOK(fundRow, c)
<1> DEFINE n == Cardinality(StoredIn(fundRow))
<1>1. n \in Nat /\ Len(fundList) \in 0..n /\ \A i \in 1..Len(fundList) : fundList[i] \in StoredIn(fundRow)
  BY StoredFundsAre DEF FundsInv, FundListOK
<1>2. CASE c.op = "move"
  <2>1. c.node \in 1..(Len(fundList) - 1) /\ c.text = <<fundList[c.node], fundList[c.node + 1]>>
    BY <1>2 DEF Plain
  <2>2. c.text[1] = fundList[c.node] /\ c.text[2] = fundList[c.node + 1]
    BY <2>1
  <2> HIDE DEF n
  <2>3. c.node \in 1..(n - 1) /\ c.node \in 1..Len(fundList) /\ c.node + 1 \in 1..Len(fundList)
    BY <1>1, <2>1
  <2> QED
    BY <1>1, <1>2, <2>2, <2>3 DEF FundCallOK, n
<1>3. CASE c.op # "move"
  BY <1>3 DEF Plain, FundCallOK
<1> QED
  BY <1>2, <1>3

LEMMA MoreFunds ==
  ASSUME NEW rows, FundRowsOK(rows), NEW new, FundRowsOK(new), StoredIn(rows) \subseteq StoredIn(new)
  PROVE  /\ \A c : FundCallOK(rows, c) => FundCallOK(new, c)
         /\ \A l : FundListOK(rows, l) => FundListOK(new, l)
         /\ FundListOK(new, <<>>)
<1>1. /\ Cardinality(StoredIn(rows)) \in Nat /\ Cardinality(StoredIn(new)) \in Nat
      /\ IsFiniteSet(StoredIn(new))
  BY StoredFundsAre
<1>2. Cardinality(StoredIn(rows)) <= Cardinality(StoredIn(new))
  BY <1>1, FS_Subset
<1>3. 1..(Cardinality(StoredIn(rows)) - 1) \subseteq 1..(Cardinality(StoredIn(new)) - 1)
  BY <1>1, <1>2
<1>4. 0..Cardinality(StoredIn(rows)) \subseteq 0..Cardinality(StoredIn(new))
  BY <1>1, <1>2
<1>5. \A c : FundCallOK(rows, c) => FundCallOK(new, c)
  BY <1>3 DEF FundCallOK
<1>6. \A l : FundListOK(rows, l) => FundListOK(new, l)
  BY <1>4 DEF FundListOK
<1>7. FundListOK(new, <<>>)
  BY <1>1, EmptyList DEF FundListOK
<1> QED
  BY <1>5, <1>6, <1>7

LEMMA FundCallsStay ==
  ASSUME FundsInv, Shaped(calls), NEW k \in Nat, NEW more, Sends(k, more),
         \A i \in 1..Len(more) : FundCallOK(fundRow, more[i])
  PROVE  \A i \in 1..Len(calls') : FundCallOK(fundRow, calls'[i])
<1>1. /\ k <= Len(calls) /\ Len(calls') = (Len(calls) - k) + Len(more)
      /\ Len(calls) \in Nat /\ Len(more) \in Nat
  BY DEF Sends, Carries, Shaped, IsList
<1>2. ASSUME NEW i \in 1..Len(calls')
      PROVE  FundCallOK(fundRow, calls'[i])
  <2>1. CASE i <= Len(calls) - k
    <3>1. k + i \in 1..Len(calls) /\ Same(calls[k + i], calls'[i])
      BY <1>1, <2>1 DEF Sends, Carries
    <3>2. FundCallOK(fundRow, calls[k + i])
      BY <3>1 DEF FundsInv
    <3> QED
      BY <3>1, <3>2 DEF Same, FundCallOK
  <2>2. CASE i > Len(calls) - k
    <3>1. /\ i - (Len(calls) - k) \in 1..Len(more)
          /\ i = (Len(calls) - k) + (i - (Len(calls) - k))
      BY <1>1, <2>2
    <3>2. calls'[i] = more[i - (Len(calls) - k)]
      BY <3>1 DEF Sends, Carries
    <3> QED
      BY <3>1, <3>2
  <2> QED
    BY <1>1, <2>1, <2>2
<1> QED
  BY <1>2

\* Only four answers change funds, and none of them forgets one.
LEMMA WhichFunds ==
  PlanScreensNext => fundRow' = fundRow \/ Revised \/ FundChanged \/ FundMoved \/ FundHalfMoved
<1> DEFINE Kept == fundRow' = fundRow
<1>1. UNCHANGED services => Kept
  BY DEF services
<1> HIDE DEF Kept
<1>2. \A n : ToggleEditor(n) \/ Type(n) \/ TypeLetter(n) \/ OpenDialog(n) \/ ChangeTab(n) => Kept
  BY <1>1 DEF ToggleEditor, Type, TypeLetter, OpenDialog, ChangeTab
<1>3. \A y : SaveEditor(y) \/ AbolishOpen(y) \/ AskRevision(y) \/ LeaveCell(y) \/ LookUp(y) => Kept
  BY <1>1 DEF SaveEditor, AbolishOpen, AskRevision, LeaveCell, LookUp
<1>4. \A n, y : SubmitDialog(n, y) \/ ChangeFund(n, y) => Kept
  BY <1>1 DEF SubmitDialog, ChangeFund
<1>5. \A e : RollBack(e) \/ MoveFund(e) => Kept
  BY <1>1 DEF RollBack, MoveFund
<1>6. CloseDialog \/ TreeArrives \/ RevisionsArrive \/ FundsArrive \/ CallFails => Kept
  BY <1>1 DEF CloseDialog, TreeArrives, RevisionsArrive, FundsArrive, CallFails
<1>7. EditSaved \/ NodeAbolished \/ TargetSaved \/ NodeCreated \/ RolledBack => Kept
  BY DEF Kept, EditSaved, NodeAbolished, TargetSaved, NodeCreated, RolledBack
<1>8. PlanScreensNext => Kept \/ Revised \/ FundChanged \/ FundMoved \/ FundHalfMoved
  BY <1>2, <1>3, <1>4, <1>5, <1>6, <1>7 DEF PlanScreensNext
<1> QED
  BY <1>8 DEF Kept

LEMMA NextOrder ==
  ASSUME FundRowsOK(fundRow)
  PROVE  NextFundOrder \in Nat
<1> DEFINE R == StoredIn(fundRow)
           B == [f \in R |-> FundsBefore(fundRow, R, f)]
           orders == {fundRow[f].order : f \in R}
           Largest(n) == \A f \in R : fundRow[f].order <= n
<1>1. IsFiniteSet(R) /\ \A f \in R : fundRow[f].order \in Nat
  BY StoredFundsAre
<1>2. NextFundOrder = IF R = {} THEN 0 ELSE 1 + (CHOOSE n \in orders : Largest(n))
  BY DEF NextFundOrder, StoredIn
<1>3. ASSUME R # {} PROVE \E n \in orders : Largest(n)
  <2>1. Orders(B, R) /\ \A f \in R : B[f] = FundsBefore(fundRow, R, f)
    BY <1>1, FundsAreOrdered
  <2> HIDE DEF B
  <2>2. Cardinality(R) \in Nat \ {0}
    BY <1>1, <1>3, FS_EmptySet, FS_CardinalityType
  <2>3. PICK f \in R : Cardinality(B[f]) = Cardinality(R) - 1
    BY <1>1, <2>1, <2>2, PlacesRun
  <2>4. IsFiniteSet(R \ {f}) /\ Cardinality(R \ {f}) = Cardinality(R) - 1
    BY <1>1, FS_RemoveElement
  <2>5. B[f] \in SUBSET (R \ {f})
    BY <2>1 DEF Orders
  <2>6. B[f] = R \ {f}
    BY <2>3, <2>4, <2>5, FS_Subset
  <2>7. ASSUME NEW g \in R PROVE fundRow[g].order <= fundRow[f].order
    <3>1. CASE g = f
      BY <1>1, <3>1
    <3>2. CASE g # f
      BY <1>1, <2>1, <2>6, <3>2 DEF FundsBefore
    <3> QED
      BY <3>1, <3>2
  <2> QED
    BY <2>7
<1> HIDE DEF Largest
<1>4. R # {} => (CHOOSE n \in orders : Largest(n)) \in Nat
  BY <1>1, <1>3
<1> QED
  BY <1>2, <1>4

LEMMA FundRowsStay ==
  ASSUME FundsInv, PageInv, PlanScreensNext
  PROVE  FundRowsOK(fundRow') /\ StoredIn(fundRow) \subseteq StoredIn(fundRow')
<1>1. FundRowsOK(fundRow) /\ ListOK(plot, calls)
  BY DEF FundsInv, PageInv
<1>2. \A f \in Funds : fundRow[f] # NULL => fundRow[f] \in FundRecord
  BY <1>1 DEF FundRowsOK
<1>3. ASSUME DOMAIN fundRow' = Funds, fundRow' = [f \in Funds |-> fundRow'[f]],
             \A f \in Funds : fundRow'[f] = fundRow[f] \/ fundRow'[f] \in FundRecord
      PROVE  FundRowsOK(fundRow') /\ StoredIn(fundRow) \subseteq StoredIn(fundRow')
  BY <1>1, <1>3, PlanScreensAssumption DEF FundRowsOK, StoredIn
<1>4. CASE fundRow' = fundRow
  BY <1>1, <1>4
<1>5. ASSUME FundMoved \/ FundHalfMoved
      PROVE  LET rows == Placed(First1.text, First1.node)
             IN FundRowsOK(rows) /\ StoredIn(rows) = StoredIn(fundRow)
  <2>1. Answers("move")
    BY <1>5 DEF FundMoved, FundHalfMoved
  <2>2. 1 \in 1..Len(calls) /\ First1.op = "move"
    BY <1>1, <2>1, FirstIsOK
  <2>3. FundCallOK(fundRow, First1)
    BY <2>2 DEF FundsInv, First1
  <2>4. First1.node \in Nat \ {0}
    BY <1>1, <2>2, <2>3, StoredFundsAre DEF FundCallOK
  <2> QED
    BY <1>1, <2>2, <2>3, <2>4, PlacedRows DEF FundCallOK
<1>6. CASE FundMoved
  BY <1>5, <1>6 DEF FundMoved
<1>7. CASE FundHalfMoved
  <2> DEFINE rows == Placed(First1.text, First1.node)
  <2>1. FundRowsOK(rows) /\ StoredIn(rows) = StoredIn(fundRow)
    BY <1>5, <1>7
  <2>2. PICK g : fundRow' = [fundRow EXCEPT ![g] = rows[g]]
    BY <1>7 DEF FundHalfMoved
  <2> HIDE DEF rows
  <2>3. \A f \in Funds : fundRow'[f] = IF f = g THEN rows[f] ELSE fundRow[f]
    BY <1>1, <2>2 DEF FundRowsOK
  <2> QED
    BY <1>1, <1>3, <2>1, <2>2, <2>3 DEF FundRowsOK, StoredIn
<1>8. CASE FundChanged
  <2> DEFINE g == First1.node
             Closed(r) == [r EXCEPT !.abolished = First1.year]
             new == [order |-> NextFundOrder, from |-> First1.year, abolished |-> NULL]
  <2>1. First1.year \in Years
    <3>1. 1 \in 1..Len(calls) /\ First1.op = "fund"
      BY <1>1, <1>8, FirstIsOK DEF FundChanged
    <3> QED
      BY <3>1 DEF FundsInv, FundCallOK, First1
  <2>2. new \in FundRecord
    BY <1>1, <2>1, NextOrder DEF FundRecord
  <2>3. \A r \in FundRecord : Closed(r) \in FundRecord
    BY <2>1 DEF FundRecord
  <2>4. fundRow' = [fundRow EXCEPT ![g] = IF First1.text THEN Closed(fundRow[g]) ELSE new]
    BY <1>8 DEF FundChanged
  <2>5. First1.text = (fundRow[g] # NULL /\ fundRow[g].abolished = NULL)
    BY <1>8 DEF FundChanged
  <2> HIDE DEF Closed, new
  <2>6. g \in Funds => (IF First1.text THEN Closed(fundRow[g]) ELSE new) \in FundRecord
    BY <1>2, <2>2, <2>3, <2>5
  <2> QED
    BY <1>1, <1>3, <2>4, <2>6 DEF FundRowsOK
<1>9. CASE Revised
  <2> DEFINE Closed(r) == [r EXCEPT !.abolished = First1.year]
  <2>1. First1.year \in Years
    BY <1>1, <1>9, FirstIsOK DEF Revised, CallOK
  <2>2. \A r \in FundRecord : Closed(r) \in FundRecord
    BY <2>1 DEF FundRecord
  <2>3. fundRow' = fundRow \/ FundsRevised(First1.year)
    BY <1>9 DEF Revised
  <2>4. CASE FundsRevised(First1.year)
    <3>1. fundRow' = [f \in Funds |-> IF fundRow[f] # NULL /\ fundRow[f].abolished = NULL
                                      THEN Closed(fundRow[f]) ELSE fundRow[f]]
      BY <2>4 DEF FundsRevised
    <3> HIDE DEF Closed
    <3> QED
      BY <1>2, <1>3, <2>2, <3>1
  <2> QED
    BY <1>4, <2>3, <2>4
<1> QED
  BY <1>4, <1>6, <1>7, <1>8, <1>9, WhichFunds


LEMMA WhichList ==
  PlanScreensNext => fundList' = fundList \/ fundList' = <<>> \/ FundsArrive
<1> DEFINE Kept == fundList' = fundList \/ fundList' = <<>>
<1>1. UNCHANGED page => Kept
  BY DEF page
<1>2. UNCHANGED fundList => Kept
  OBVIOUS
<1>3. fundList' = <<>> => Kept
  OBVIOUS
<1> HIDE DEF Kept
<1>4. \A n : ToggleEditor(n) \/ Type(n) \/ TypeLetter(n) \/ OpenDialog(n) \/ ChangeTab(n) => Kept
  BY <1>2, <1>3 DEF ToggleEditor, Type, TypeLetter, OpenDialog, ChangeTab
<1>5. \A y : SaveEditor(y) \/ AbolishOpen(y) \/ AskRevision(y) \/ LeaveCell(y) \/ LookUp(y) => Kept
  BY <1>1, <1>2 DEF SaveEditor, AbolishOpen, AskRevision, LeaveCell, LookUp
<1>6. \A n, y : SubmitDialog(n, y) \/ ChangeFund(n, y) => Kept
  BY <1>1 DEF SubmitDialog, ChangeFund
<1>7. \A e : RollBack(e) \/ MoveFund(e) => Kept
  BY <1>1 DEF RollBack, MoveFund
<1>8. CloseDialog \/ TreeArrives \/ RevisionsArrive => Kept
  BY <1>2 DEF CloseDialog, TreeArrives, RevisionsArrive
<1>9. CallFails => Kept
  BY <1>2, <1>3 DEF CallFails
<1>10. EditSaved \/ NodeAbolished \/ TargetSaved \/ RolledBack \/ FundChanged \/ FundMoved \/ FundHalfMoved
         => Kept
  BY <1>1 DEF EditSaved, NodeAbolished, TargetSaved, RolledBack, FundChanged, FundMoved, FundHalfMoved
<1>11. NodeCreated \/ Revised => Kept
  BY <1>2 DEF NodeCreated, Revised
<1>12. PlanScreensNext => Kept \/ FundsArrive
  BY <1>4, <1>5, <1>6, <1>7, <1>8, <1>9, <1>10, <1>11 DEF PlanScreensNext
<1> QED
  BY <1>12 DEF Kept

LEMMA FundListStays ==
  ASSUME FundsInv, PageInv, PlanScreensNext
  PROVE  FundListOK(fundRow', fundList')
<1>1. /\ FundRowsOK(fundRow) /\ FundListOK(fundRow, fundList)
      /\ FundRowsOK(fundRow') /\ StoredIn(fundRow) \subseteq StoredIn(fundRow')
  BY FundRowsStay DEF FundsInv
<1>2. /\ FundListOK(fundRow', fundList)
      /\ FundListOK(fundRow', <<>>)
  <2> DEFINE new == fundRow'
  <2>1. FundRowsOK(new) /\ StoredIn(fundRow) \subseteq StoredIn(new)
    BY <1>1
  <2> HIDE DEF new
  <2>2. FundListOK(new, fundList) /\ FundListOK(new, <<>>)
    BY <1>1, <2>1, MoreFunds
  <2> QED
    BY <2>2 DEF new
<1>3. ASSUME NEW y, fundRow' = fundRow, fundList' = FundsOf(y)
      PROVE  FundListOK(fundRow', fundList')
  <2> DEFINE R == FundsIn(fundRow, y)
  <2>1. R \in SUBSET StoredIn(fundRow) /\ Cardinality(R) \in 0..Cardinality(StoredIn(fundRow))
    BY <1>1, StoredFundsAre
  <2>2. FundsOf(y) = FundList(fundRow, R)
    BY FundListIs
  <2> HIDE DEF R
  <2>3. /\ Len(FundList(fundRow, R)) = Cardinality(R)
        /\ \A i \in 1..Cardinality(R) : FundList(fundRow, R)[i] \in R
    BY <1>1, <2>1, FundsAreListed
  <2>4. FundListOK(fundRow, FundList(fundRow, R))
    BY <2>1, <2>3 DEF FundListOK
  <2> QED
    BY <1>3, <2>2, <2>4
<1>4. CASE FundsArrive
  <2>1. fundRow' = fundRow /\ (fundList' = fundList \/ fundList' = FundsOf(First1.view))
    BY <1>4 DEF FundsArrive, services
  <2> QED
    BY <1>2, <1>3, <2>1
<1> QED
  BY <1>2, <1>4, WhichList

\* The other requests that write say nothing of funds.
LEMMA OneFundCall ==
  ASSUME FundsInv, Shaped(calls), NEW c, Sends(0, <<c>>), c.op \notin {"fund", "move"}
  PROVE  \A i \in 1..Len(calls') : FundCallOK(fundRow, calls'[i])
<1> DEFINE one == <<c>>
<1>1. \A i \in 1..Len(one) : one[i] = c
  BY ShortLists
<1>2. Sends(0, one) /\ 0 \in Nat
  OBVIOUS
<1> HIDE DEF one
<1>3. \A i \in 1..Len(one) : FundCallOK(fundRow, one[i])
  BY <1>1 DEF FundCallOK
<1> QED
  BY <1>2, <1>3, FundCallsStay

LEMMA PlainFundCalls ==
  ASSUME FundsInv, Shaped(calls), NEW k \in Nat, NEW y, SendsPlain(k, y)
  PROVE  \A i \in 1..Len(calls') : FundCallOK(fundRow, calls'[i])
<1>1. PICK more : Sends(k, more) /\ AllPlain(y, more)
  BY DEF SendsPlain
<1>2. \A i \in 1..Len(more) : FundCallOK(fundRow, more[i])
  BY <1>1, PlainFundCall DEF AllPlain
<1> QED
  BY <1>1, <1>2, FundCallsStay

LEMMA FundCallsKept ==
  ASSUME FundsInv, PageInv, PlanScreensNext
  PROVE  \A i \in 1..Len(calls') : FundCallOK(fundRow, calls'[i])
<1> DEFINE Kept == \A i \in 1..Len(calls') : FundCallOK(fundRow, calls'[i])
<1>1. Shaped(calls)
  BY ListIsShaped DEF PageInv
<1>2. \A y : SendsPlain(0, y) \/ SendsPlain(1, y) => Kept
  BY <1>1, PlainFundCalls
<1>3. \A c : Sends(0, <<c>>) /\ c.op \notin {"fund", "move"} => Kept
  BY <1>1, OneFundCall
<1> HIDE DEF Kept
<1>4. \A y : SaveEditor(y) \/ AbolishOpen(y) => Kept
  <2>1. \A y : EditorCall("update", y).op = "update" /\ EditorCall("abolish", y).op = "abolish"
    BY EditorCallIs
  <2> QED
    BY <1>1, <1>3, <2>1, PlanEmissions
<1>5. \A n, y : SubmitDialog(n, y) => Kept
  <2>1. \A n, y : CreateCall(n, y).op = "create"
    BY CreateCallIs
  <2> QED
    BY <1>1, <1>3, <2>1, PlanEmissions
<1>6. \A e : AskRevision(e) \/ RollBack(e) => Kept
  <2>1. \A e : ReviseCall(e).op = "revise" /\ RollBackCall(e).op = "rollback"
    BY OtherCallsAre
  <2> QED
    BY <1>1, <1>3, <2>1, PlanEmissions
<1>7. PlanScreensNext => Kept
  BY <1>1, <1>2, <1>4, <1>5, <1>6, PlainEmissions, PlainAnswers DEF PlanScreensNext
<1> QED
  BY <1>7 DEF Kept

LEMMA NextFunds ==
  PageInv /\ FundsInv /\ [PlanScreensNext]_psvars => FundsInv'
<1> SUFFICES ASSUME PageInv, FundsInv, [PlanScreensNext]_psvars
             PROVE  FundsInv'
  OBVIOUS
<1>1. CASE PlanScreensNext
  <2>1. /\ FundRowsOK(fundRow) /\ FundRowsOK(fundRow') /\ StoredIn(fundRow) \subseteq StoredIn(fundRow')
        /\ FundListOK(fundRow', fundList')
        /\ \A i \in 1..Len(calls') : FundCallOK(fundRow, calls'[i])
    BY <1>1, FundRowsStay, FundListStays, FundCallsKept DEF FundsInv
  <2> DEFINE new == fundRow'
  <2>2. FundRowsOK(new) /\ StoredIn(fundRow) \subseteq StoredIn(new)
    BY <2>1
  <2> HIDE DEF new
  <2>3. \A c : FundCallOK(fundRow, c) => FundCallOK(new, c)
    BY <2>1, <2>2, MoreFunds
  <2>4. \A i \in 1..Len(calls') : FundCallOK(fundRow', calls'[i])
    BY <2>1, <2>3 DEF new
  <2> QED
    BY <2>1, <2>4 DEF FundsInv
<1>2. CASE UNCHANGED psvars
  <2>1. fundRow' = fundRow /\ fundList' = fundList /\ calls' = calls
    BY <1>2 DEF psvars, services, page
  <2> QED
    BY <2>1 DEF FundsInv
<1> QED
  BY <1>1, <1>2

LEMMA InitFunds == PlanScreensInit => FundsInv
<1> SUFFICES ASSUME PlanScreensInit
             PROVE  FundsInv
  OBVIOUS
<1> DEFINE Rank(f) == Cardinality({g \in Funds : g < f})
           Fund(n) == [order |-> n, from |-> MinYear, abolished |-> NULL]
<1>1. \A f \in Funds : Rank(f) \in Nat
  <2>1. ASSUME NEW f \in Funds PROVE Rank(f) \in Nat
    <3>1. {g \in Funds : g < f} \subseteq Funds
      OBVIOUS
    <3> QED
      BY <3>1, FS_Subset, FS_CardinalityType, PlanScreensAssumption
  <2> QED
    BY <2>1
<1>2. \A n \in Nat : Fund(n) \in FundRecord
  BY YearsAssumption DEF FundRecord, Years
<1>3. fundRow = [f \in Funds |-> Fund(Rank(f))]
  BY DEF PlanScreensInit
<1> HIDE DEF Rank, Fund
<1>4. FundRowsOK(fundRow)
  BY <1>1, <1>2, <1>3 DEF FundRowsOK
<1>5. FundListOK(fundRow, fundList)
  <2>1. fundList = <<>>
    BY DEF PlanScreensInit
  <2> QED
    BY <1>4, <2>1, MoreFunds
<1>6. \A i \in 1..Len(calls) : FundCallOK(fundRow, calls[i])
  <2> DEFINE c == LoadOf("load", NULL)
             d == LoadOf("revisions", NULL)
  <2>1. calls = <<c, d>> /\ c.op = "load" /\ d.op = "revisions"
    BY DEF PlanScreensInit, LoadOf, Asked
  <2> HIDE DEF c, d
  <2>2. \A i \in 1..2 : i = 1 \/ i = 2
    OBVIOUS
  <2> QED
    BY <2>1, <2>2, ShortLists DEF FundCallOK
<1> QED
  BY <1>4, <1>5, <1>6 DEF FundsInv

\* A move is two requests that each store a place in the list as it was shown.  Answered on
\* an up-to-date list they make the two funds change places, and no other fund moves.
THEOREM MovedFundsSwap == PlanScreensSpec => FundMoveSwaps
<1>1. PageInv /\ FundsInv /\ [PlanScreensNext]_psvars => [MoveSwaps]_psvars
  BY MovesSwap
<1>2. [][MoveSwaps]_psvars => FundMoveSwaps
  BY PTL DEF MoveSwaps, FundMoveSwaps
<1> QED
  BY <1>1, <1>2, InitPage, PageSteps, InitFunds, NextFunds, PTL DEF PlanScreensSpec
=============================================================================
