------------------------ MODULE ItemVersions_proofs -------------------------
(***************************************************************************)
(* Facts about the version rows of one lineage, for any payloads: what     *)
(* writeVersion leaves, and what the reading side makes of it.  The proofs *)
(* about the fund sources, the plan and the organisation rest on them.     *)
(* Beside them, what the proofs about screens share: lists, and the places *)
(* in a strict total order.                                                *)
(***************************************************************************)
EXTENDS ItemVersions, FiniteSetTheorems, SequenceTheorems, WellFoundedInduction, TLAPS

USE YearsAssumption, NullAssumption

-----------------------------------------------------------------------------
(* What writeVersion leaves.                                               *)

\* The rows writeVersion leaves are well-formed rows: in particular the year
\* it closes a row with is a year of the plan.
LEMMA WriteVersionType ==
  ASSUME NEW P, NEW vs \in SUBSET Version(P), NEW id \in Nat, NEW y \in Years,
         NEW type \in ChangeTypes, NEW payload \in P, NEW previous,
         type \in {"update", "abolish"} => previous \in P
  PROVE  WriteVersion(vs, id, y, type, payload, previous) \in SUBSET Version(P)
<1>1. CloseCurrent(vs, y) \subseteq Version(P)
  <2>1. ASSUME NEW v \in vs, v.from <= y - 1
        PROVE  [v EXCEPT !.to = y - 1] \in Version(P)
    <3>1. v \in Version(P)
      OBVIOUS
    <3>2. y - 1 \in YearOrNull
      BY <2>1, <3>1 DEF Version, Years, YearOrNull
    <3> QED
      BY <3>1, <3>2 DEF Version
  <2> QED
    BY <2>1 DEF CloseCurrent, First, OpenRows
<1>2. Backfill(vs, id, y, type, previous) \subseteq Version(P)
  BY DEF Backfill, Version, Years, YearOrNull, ChangeTypes
<1>3. OpenFrom(id, y, type, payload) \subseteq Version(P)
  BY DEF OpenFrom, Version, Years, YearOrNull, ChangeTypes
<1> QED
  BY <1>1, <1>2, <1>3 DEF WriteVersion

\* With at most one open row before, the rows open afterwards are the one
\* inserted (none for an abolition).
LEMMA WriteVersionOpen ==
  ASSUME NEW P, NEW vs \in SUBSET Version(P), NEW id, NEW y \in Years,
         NEW type, NEW payload, NEW previous,
         \A v, w \in OpenRows(vs) : v = w
  PROVE  OpenRows(WriteVersion(vs, id, y, type, payload, previous))
           = OpenFrom(id, y, type, payload)
<1>1. First(OpenRows(vs)) = OpenRows(vs)
  BY DEF First, OpenRows, Before, Version, Years
<1>2. y - 1 # NULL
  BY DEF Years
<1>3. ASSUME NEW v \in CloseCurrent(vs, y)
      PROVE  ~IsOpen(v)
  <2>1. CASE v \in vs \ First(OpenRows(vs))
    BY <1>1, <2>1 DEF OpenRows
  <2>2. CASE \E w \in vs : v = [w EXCEPT !.to = y - 1]
    BY <1>2, <2>2 DEF IsOpen, Version
  <2> QED
    BY <1>3, <2>1, <2>2 DEF CloseCurrent, First, OpenRows
<1>4. ASSUME NEW v \in Backfill(vs, id, y, type, previous)
      PROVE  ~IsOpen(v)
  BY <1>2, <1>4 DEF Backfill, IsOpen
<1>5. ASSUME NEW v \in OpenFrom(id, y, type, payload)
      PROVE  IsOpen(v)
  BY <1>5 DEF OpenFrom, IsOpen
<1> QED
  BY <1>3, <1>4, <1>5 DEF OpenRows, WriteVersion

\* A closed row survives every write.
LEMMA WriteVersionKeepsClosed ==
  ASSUME NEW vs, NEW id, NEW y, NEW type, NEW payload, NEW previous,
         NEW v \in vs, ~IsOpen(v)
  PROVE  v \in WriteVersion(vs, id, y, type, payload, previous)
BY DEF WriteVersion, CloseCurrent, First, OpenRows

\* A finite table stays finite.
LEMMA WriteVersionFinite ==
  ASSUME NEW P, NEW vs \in SUBSET Version(P), IsFiniteSet(vs), NEW id, NEW y \in Years,
         NEW type, NEW payload, NEW previous
  PROVE  IsFiniteSet(WriteVersion(vs, id, y, type, payload, previous))
<1> DEFINE current == First(OpenRows(vs))
           early == {v \in current : v.from <= y - 1}
           close == [v \in early |-> [v EXCEPT !.to = y - 1]]
           closed == {close[v] : v \in early}
<1>1. current \in SUBSET vs /\ early \in SUBSET vs
  BY DEF First, OpenRows
<1>2. IsFiniteSet(early) /\ IsFiniteSet(vs \ current)
  BY <1>1, FS_Subset, FS_Difference
<1>3. close \in Surjection(early, closed)
  BY DEF Surjection
<1>4. IsFiniteSet(closed)
  <2> HIDE DEF close, closed, early
  <2> QED
    BY <1>2, <1>3, FS_Surjection
<1>5. CloseCurrent(vs, y) = (vs \ current) \cup closed
  BY DEF CloseCurrent
<1>6. IsFiniteSet(Backfill(vs, id, y, type, previous)) /\ IsFiniteSet(OpenFrom(id, y, type, payload))
  BY FS_EmptySet, FS_Singleton DEF Backfill, OpenFrom
<1> HIDE DEF current, closed
<1>7. IsFiniteSet(CloseCurrent(vs, y))
  BY <1>2, <1>4, <1>5, FS_Union
<1>8. IsFiniteSet(CloseCurrent(vs, y) \cup Backfill(vs, id, y, type, previous))
  BY <1>6, <1>7, FS_Union
<1> QED
  BY <1>6, <1>8, FS_Union DEF WriteVersion

-----------------------------------------------------------------------------
(* What is read.                                                           *)

\* Of a finite non-empty set of rows one comes first.
LEMMA FirstExists ==
  ASSUME NEW P, NEW rows \in SUBSET Version(P), IsFiniteSet(rows), rows # {}
  PROVE  First(rows) # {}
<1> DEFINE Earlier(v) == {w \in rows : Before(w, v)}
           family == {Earlier(v) : v \in rows}
<1>1. family \in SUBSET FiniteSubsetsOf(rows)
  BY FS_Subset DEF FiniteSubsetsOf
<1>2. \A v, w \in rows : Before(w, v) => <<Earlier(w), Earlier(v)>> \in StrictSubsetOrdering(rows)
  <2> SUFFICES ASSUME NEW v \in rows, NEW w \in rows, Before(w, v)
               PROVE  <<Earlier(w), Earlier(v)>> \in StrictSubsetOrdering(rows)
    OBVIOUS
  <2>1. \A u \in rows : Before(u, w) => Before(u, v)
    BY DEF Before, Version, Years
  <2>2. w \in Earlier(v) /\ w \notin Earlier(w)
    BY DEF Before, Version, Years
  <2>3. Earlier(w) \subseteq Earlier(v) /\ Earlier(w) # Earlier(v)
    BY <2>1, <2>2
  <2> QED
    BY <2>3 DEF StrictSubsetOrdering
<1>3. \E x \in family : \A z \in family : <<z, x>> \notin StrictSubsetOrdering(rows)
  <2>1. family # {}
    OBVIOUS
  <2> HIDE DEF family
  <2> QED
    BY <1>1, <2>1, WFMin, FS_StrictSubsetOrderingWellFounded
<1>4. PICK v \in rows : \A w \in rows : <<Earlier(w), Earlier(v)>> \notin StrictSubsetOrdering(rows)
  BY <1>3
<1> QED
  BY <1>2, <1>4 DEF First

\* In the year it was made for an edit shows its payload, also under rows written
\* before it for later years.
LEMMA WriteVersionShows ==
  ASSUME NEW P, NEW vs \in SUBSET Version(P), NEW id \in Nat, NEW y \in Years,
         NEW type, NEW payload, NEW previous,
         type # "abolish", \A v \in vs : v.id < id
  PROVE  OverlayPayload(WriteVersion(vs, id, y, type, payload, previous), y) = {payload}
<1> DEFINE new == WriteVersion(vs, id, y, type, payload, previous)
           inserted == [id |-> id, from |-> y, to |-> NULL, type |-> type, payload |-> payload]
           covering == {w \in new : Covers(w, y)}
<1>1. inserted \in covering
  BY DEF WriteVersion, OpenFrom, Covers, IsOpen, Years
<1>2. \A v \in covering : v # inserted => Before(inserted, v) /\ ~Before(v, inserted)
  <2> SUFFICES ASSUME NEW v \in covering, v # inserted
               PROVE  Before(inserted, v) /\ ~Before(v, inserted)
    OBVIOUS
  <2>1. v.from \in Int /\ v.id \in Int /\ v.id < id
    <3>1. CASE v \in CloseCurrent(vs, y)
      BY <3>1 DEF CloseCurrent, First, OpenRows, Version, Years
    <3>2. CASE v \in Backfill(vs, id, y, type, previous)
      <4>1. v.to = y - 1 /\ v.to # NULL
        BY <3>2 DEF Backfill, Years
      <4>2. ~Covers(v, y)
        BY <4>1 DEF Covers, IsOpen, Years
      <4> QED
        BY <4>2
    <3> QED
      BY <3>1, <3>2 DEF WriteVersion, OpenFrom
  <2>2. v.from <= y
    BY DEF Covers
  <2> QED
    BY <2>1, <2>2 DEF Before, Years
<1>3. ~Before(inserted, inserted)
  BY DEF Before, Years
<1>4. First(covering) = {inserted}
  <2> HIDE DEF covering, inserted
  <2> QED
    BY <1>1, <1>2, <1>3 DEF First
<1>5. OverlayPayload(new, y) = {inserted.payload}
  <2> HIDE DEF inserted
  <2> QED
    BY <1>4 DEF OverlayPayload
<1> QED
  BY <1>5

\* An edit for year y leaves what every earlier year shows, unless it has to make up
\* the history of a lineage that has no row in force.
LEMMA WriteVersionKeepsPast ==
  ASSUME NEW P, NEW vs \in SUBSET Version(P), NEW id, NEW y \in Years,
         NEW type, NEW payload, NEW previous, NEW x \in Years, x < y,
         OpenRows(vs) # {} \/ type \notin {"update", "abolish"}
  PROVE  LET new == WriteVersion(vs, id, y, type, payload, previous)
         IN /\ OverlayPayload(new, x) = OverlayPayload(vs, x)
            /\ (\E v \in new : Covers(v, x)) <=> (\E v \in vs : Covers(v, x))
<1> DEFINE new == WriteVersion(vs, id, y, type, payload, previous)
           before == {v \in vs : Covers(v, x)}
           after == {v \in new : Covers(v, x)}
           Same(v, w) == v.from = w.from /\ v.id = w.id /\ v.payload = w.payload
<1>1. new = CloseCurrent(vs, y) \cup OpenFrom(id, y, type, payload)
  BY DEF WriteVersion, Backfill
<1>2. \A v \in before : \E w \in after : Same(v, w)
  <2> SUFFICES ASSUME NEW v \in before
               PROVE  \E w \in after : Same(v, w)
    OBVIOUS
  <2>1. CASE v \notin First(OpenRows(vs))
    BY <1>1, <2>1 DEF CloseCurrent
  <2>2. CASE v \in First(OpenRows(vs))
    <3> DEFINE w == [v EXCEPT !.to = y - 1]
    <3>1. v.from <= x /\ v.from <= y - 1 /\ v \in Version(P)
      BY DEF Covers, Years, Version
    <3>2. w \in new
      BY <1>1, <2>2, <3>1 DEF CloseCurrent
    <3>3. w.from = v.from /\ w.id = v.id /\ w.payload = v.payload /\ w.to = y - 1
      BY <3>1 DEF Version
    <3>4. Covers(w, x)
      <4> HIDE DEF w
      <4> QED
        BY <3>1, <3>3 DEF Covers, Years
    <3> QED
      BY <3>2, <3>3, <3>4
  <2> QED
    BY <2>1, <2>2
<1>3. \A w \in after : \E v \in before : Same(v, w)
  <2> SUFFICES ASSUME NEW w \in after
               PROVE  \E v \in before : Same(v, w)
    OBVIOUS
  <2>1. w \notin OpenFrom(id, y, type, payload)
    BY DEF OpenFrom, Covers, Years
  <2>2. CASE w \in vs
    BY <2>2
  <2>3. CASE \E v \in First(OpenRows(vs)) : w = [v EXCEPT !.to = y - 1]
    <3>1. PICK v \in First(OpenRows(vs)) : w = [v EXCEPT !.to = y - 1]
      BY <2>3
    <3>2. v \in vs /\ v \in Version(P) /\ IsOpen(v)
      BY DEF First, OpenRows
    <3>3. w.from = v.from /\ w.id = v.id /\ w.payload = v.payload
      BY <3>1, <3>2 DEF Version
    <3>4. Covers(v, x)
      BY <3>2, <3>3 DEF Covers
    <3> QED
      BY <3>2, <3>3, <3>4
  <2> QED
    BY <1>1, <2>1, <2>2, <2>3 DEF CloseCurrent
<1>4. \A v \in before, w \in after : Same(v, w) => (v \in First(before) <=> w \in First(after))
  <2> SUFFICES ASSUME NEW v \in before, NEW w \in after, Same(v, w)
               PROVE  v \in First(before) <=> w \in First(after)
    OBVIOUS
  <2> HIDE DEF before, after
  <2>1. ASSUME v \in First(before)
        PROVE  w \in First(after)
    BY <1>3, <2>1 DEF First, Before
  <2>2. ASSUME w \in First(after)
        PROVE  v \in First(before)
    BY <1>2, <2>2 DEF First, Before
  <2> QED
    BY <2>1, <2>2
<1>5. {v.payload : v \in First(after)} = {v.payload : v \in First(before)}
  <2> HIDE DEF before, after
  <2>1. ASSUME NEW w \in First(after)
        PROVE  \E v \in First(before) : v.payload = w.payload
    BY <1>3, <1>4 DEF First
  <2>2. ASSUME NEW v \in First(before)
        PROVE  \E w \in First(after) : w.payload = v.payload
    BY <1>2, <1>4 DEF First
  <2> QED
    BY <2>1, <2>2
<1>6. (\E w \in new : Covers(w, x)) <=> (\E v \in vs : Covers(v, x))
  BY <1>2, <1>3
<1> QED
  BY <1>5, <1>6 DEF OverlayPayload

\* The history made up for a lineage without any row is the row before the edit.
LEMMA BackfillShows ==
  ASSUME NEW id \in Nat, NEW y \in Years, NEW type \in {"update", "abolish"},
         NEW payload, NEW previous, NEW x \in Years, x < y
  PROVE  LET new == WriteVersion({}, id, y, type, payload, previous)
         IN OverlayPayload(new, x) = {previous} /\ \E v \in new : Covers(v, x)
<1> DEFINE new == WriteVersion({}, id, y, type, payload, previous)
           history == [id |-> id, from |-> MinYear, to |-> y - 1, type |-> "create",
                       payload |-> previous]
<1>1. new = {history} \cup OpenFrom(id, y, type, payload)
  BY DEF WriteVersion, CloseCurrent, First, OpenRows, Backfill, Years
<1>2. \A v \in OpenFrom(id, y, type, payload) : ~Covers(v, x)
  BY DEF OpenFrom, Covers, Years
<1>3. Covers(history, x)
  BY DEF Covers, Years
<1>4. ~Before(history, history)
  BY DEF Before, Years
<1>5. history.payload = previous
  OBVIOUS
<1> HIDE DEF history, new
<1>6. {w \in new : Covers(w, x)} = {history}
  BY <1>1, <1>2, <1>3
<1>7. First({history}) = {history}
  BY <1>4 DEF First
<1> QED
  BY <1>1, <1>3, <1>5, <1>6, <1>7 DEF OverlayPayload, new

\* No write closes a row with a later year than the one before its own, and it gives
\* no other number than its own.
LEMMA WriteVersionBounds ==
  ASSUME NEW P, NEW vs \in SUBSET Version(P), NEW id, NEW y \in Years,
         NEW type, NEW payload, NEW previous,
         NEW v \in WriteVersion(vs, id, y, type, payload, previous)
  PROVE  /\ v.id = id \/ \E w \in vs : v.id = w.id
         /\ v.from \in {MinYear, y} \/ \E w \in vs : v.from = w.from
         /\ IsOpen(v) \/ v \in vs \/ v.to = y - 1
<1>1. CASE v \in vs
  BY <1>1
<1>2. CASE \E w \in First(OpenRows(vs)) : v = [w EXCEPT !.to = y - 1]
  BY <1>2 DEF First, OpenRows, Version
<1>3. CASE v \in Backfill(vs, id, y, type, previous) \cup OpenFrom(id, y, type, payload)
  BY <1>3 DEF Backfill, OpenFrom, IsOpen
<1> QED
  BY <1>1, <1>2, <1>3 DEF WriteVersion, CloseCurrent

\* In a year that every closed row has ended before and every open row has begun by,
\* the open row is what shows.
LEMMA OpenRowsShow ==
  ASSUME NEW P, NEW vs \in SUBSET Version(P), NEW x \in Years,
         \A v \in vs : IF IsOpen(v) THEN v.from <= x ELSE v.to < x,
         \A v, w \in OpenRows(vs) : v = w
  PROVE  OverlayPayload(vs, x) = {v.payload : v \in OpenRows(vs)}
<1>1. {v \in vs : Covers(v, x)} = OpenRows(vs)
  BY DEF Covers, OpenRows, IsOpen, Version, Years, YearOrNull
<1>2. First(OpenRows(vs)) = OpenRows(vs)
  BY DEF First, OpenRows, Before, Version, Years
<1> QED
  BY <1>1, <1>2 DEF OverlayPayload

-----------------------------------------------------------------------------
(* The edits of an administrator with discipline: on a live row, or one    *)
(* that is new or was abolished.                                           *)

\* Payloads that say when they are in force.
Dated(P) == \A p \in P : p.from \in Years /\ p.abolished \in YearOrNull

\* What a query shows of a lineage in year x: the first covering row, else the live row r.
Tells(r, vs, x) ==
  IF ~ActiveInYear(vs, x, r.from, r.abolished) THEN {}
  ELSE LET overlay == OverlayPayload(vs, x)
       IN IF overlay = {} THEN {r} ELSE overlay

\* One row is open at most, and a live row has one or was never edited.
Sound(r, vs) ==
  /\ \A v, w \in OpenRows(vs) : v = w
  /\ r.abolished = NULL => OpenRows(vs) # {} \/ (vs = {} /\ r.from = MinYear)

\* What discipline adds: an abolished row without versions never was in force, and
\* a row whose only version is open starts no earlier than that version.
Edited(r, vs) ==
  /\ vs = {} /\ r.abolished # NULL => r.abolished <= r.from
  /\ \A v \in vs : vs = {v} /\ IsOpen(v) => v.from <= r.from

\* An edit for year y that saves new in the place of r.
IsEdit(r, y, type, new, previous) ==
  /\ type \in {"create", "update", "abolish"}
  /\ type = "create" => new.from = y /\ new.abolished = NULL
  /\ type # "create" => r.abolished = NULL /\ previous = r /\ new.from = r.from
  /\ type = "update" => new.abolished = NULL
  /\ type = "abolish" => new.abolished = y

\* With rows, the rows alone decide what is shown.
LEMMA TellsRows ==
  ASSUME NEW P, NEW r, NEW vs \in SUBSET Version(P), IsFiniteSet(vs), vs # {}, NEW x \in Years
  PROVE  Tells(r, vs, x) = OverlayPayload(vs, x)
<1>1. CASE \E v \in vs : Covers(v, x)
  <2> DEFINE covering == {v \in vs : Covers(v, x)}
  <2>1. covering \in SUBSET Version(P) /\ covering # {} /\ IsFiniteSet(covering)
    BY <1>1, FS_Subset
  <2>2. First(covering) # {}
    BY <2>1, FirstExists
  <2>3. OverlayPayload(vs, x) # {}
    BY <2>2 DEF OverlayPayload
  <2> QED
    BY <1>1, <2>3 DEF Tells, ActiveInYear
<1>2. CASE ~\E v \in vs : Covers(v, x)
  <2>1. OverlayPayload(vs, x) = {}
    BY <1>2 DEF OverlayPayload, First
  <2> QED
    BY <1>2, <2>1 DEF Tells, ActiveInYear
<1> QED
  BY <1>1, <1>2

\* The only edits that leave no version: the abolition of a seed in its first
\* year, and that of a row whose one version starts no earlier.
LEMMA NoRowsLeft ==
  ASSUME NEW P, Dated(P), NEW r, NEW vs \in SUBSET Version(P),
         NEW id, NEW y \in Years, NEW type, NEW new, NEW payload, NEW previous,
         IsEdit(r, y, type, new, previous),
         type # "create" => r \in P /\ Sound(r, vs) /\ Edited(r, vs),
         WriteVersion(vs, id, y, type, payload, previous) = {}
  PROVE  type = "abolish" /\ y <= r.from /\ \A v \in vs : y <= v.from
<1>1. type = "abolish" /\ r.abolished = NULL /\ r.from \in Int /\ Sound(r, vs) /\ Edited(r, vs)
  <2>1. type = "abolish"
    BY DEF WriteVersion, OpenFrom
  <2> QED
    BY <2>1 DEF IsEdit, Dated, Years
<1>2. Backfill(vs, id, y, type, previous) = {} /\ CloseCurrent(vs, y) = {}
  BY DEF WriteVersion
<1>3. CASE vs = {}
  <2>1. r.from = MinYear
    BY <1>1, <1>3 DEF Sound, OpenRows
  <2>2. OpenRows(vs) = {} /\ y \in Int /\ MinYear \in Int /\ MinYear <= y
    BY <1>3 DEF OpenRows, Years
  <2>3. ~(y > MinYear)
    BY <1>1, <1>2, <2>2 DEF Backfill
  <2> QED
    BY <1>1, <1>3, <2>1, <2>2, <2>3
<1>4. CASE vs # {}
  <2> DEFINE current == First(OpenRows(vs))
  <2>1. vs \ current = {} /\ ~\E v \in current : v.from <= y - 1
    BY <1>2 DEF CloseCurrent
  <2>2. current \subseteq OpenRows(vs)
    BY DEF First
  <2>3. PICK v \in vs : v \in current
    BY <1>4, <2>1
  <2>4. \A w \in vs : w = v /\ IsOpen(v)
    BY <1>1, <2>1, <2>2, <2>3 DEF Sound, OpenRows
  <2>5. v.from <= r.from
    BY <1>1, <2>3, <2>4 DEF Edited
  <2>6. v.from \in Int /\ y \in Int
    BY <2>3 DEF Version, Years
  <2>7. y <= v.from
    BY <2>1, <2>3, <2>6
  <2> QED
    BY <1>1, <2>4, <2>5, <2>6, <2>7
<1> QED
  BY <1>3, <1>4

\* An edit leaves the lineage sound.
LEMMA EditKeepsSound ==
  ASSUME NEW P, NEW r, NEW vs \in SUBSET Version(P), \A v, w \in OpenRows(vs) : v = w,
         NEW id, NEW y \in Years, NEW type, NEW new, NEW payload, NEW previous,
         IsEdit(r, y, type, new, previous)
  PROVE  Sound(new, WriteVersion(vs, id, y, type, payload, previous))
<1>1. OpenRows(WriteVersion(vs, id, y, type, payload, previous)) = OpenFrom(id, y, type, payload)
  BY WriteVersionOpen
<1>2. y # NULL
  BY DEF Years
<1> QED
  BY <1>1, <1>2 DEF Sound, OpenFrom, IsEdit

LEMMA EditKeepsEdited ==
  ASSUME NEW P, Dated(P), NEW r, NEW vs \in SUBSET Version(P), \A v, w \in OpenRows(vs) : v = w,
         NEW id \in Nat, NEW y \in Years, NEW type, NEW new, NEW payload, NEW previous,
         IsEdit(r, y, type, new, previous),
         type # "create" => r \in P /\ Sound(r, vs) /\ Edited(r, vs)
  PROVE  Edited(new, WriteVersion(vs, id, y, type, payload, previous))
<1> DEFINE after == WriteVersion(vs, id, y, type, payload, previous)
<1>1. ASSUME after = {}
      PROVE  new.abolished <= new.from
  <2>1. type = "abolish" /\ y <= r.from
    BY <1>1, NoRowsLeft
  <2> QED
    BY <2>1 DEF IsEdit
<1>2. ASSUME NEW v \in after, after = {v}, IsOpen(v)
      PROVE  v.from <= new.from
  <2>1. OpenRows(after) = OpenFrom(id, y, type, payload)
    BY WriteVersionOpen
  <2>2. v.from = y /\ type # "abolish"
    BY <1>2, <2>1 DEF OpenRows, OpenFrom
  <2>3. CASE type = "create"
    BY <2>2, <2>3 DEF IsEdit, Years
  <2>4. CASE type = "update"
    <3>1. r.abolished = NULL /\ new.from = r.from /\ r.from \in Int /\ Sound(r, vs) /\ Edited(r, vs)
      BY <2>4 DEF IsEdit, Dated, Years
    <3>2. \A w \in vs : w \in after \/ w \in First(OpenRows(vs))
      BY DEF WriteVersion, CloseCurrent
    <3>3. \A w \in vs : w \in Version(P) /\ w.from \in Int /\ w.id \in Int
      BY DEF Version, Years
    <3>4. CASE vs = {}
      <4>1. r.from = MinYear
        BY <3>1, <3>4 DEF Sound, OpenRows
      <4>2. ASSUME y > MinYear PROVE FALSE
        <5>1. [id |-> id, from |-> MinYear, to |-> y - 1, type |-> "create",
               payload |-> previous] \in after
          BY <2>4, <3>4, <4>2 DEF WriteVersion, Backfill, OpenRows
        <5>2. v.from = MinYear
          BY <1>2, <5>1
        <5> QED
          BY <2>2, <4>2, <5>2 DEF Years
      <4> QED
        BY <2>2, <3>1, <4>1, <4>2 DEF Years
    <3>5. CASE vs # {}
      <4>1. PICK u \in OpenRows(vs) : TRUE
        BY <3>1, <3>5 DEF Sound
      <4>2. u \in vs /\ IsOpen(u) /\ \A w \in OpenRows(vs) : w = u
        BY <4>1 DEF OpenRows
      <4>3. First(OpenRows(vs)) = {u}
        BY <4>1, <4>2, <3>3 DEF First, Before
      <4>4. ASSUME u.from <= y - 1 PROVE FALSE
        <5> DEFINE closed == [u EXCEPT !.to = y - 1]
        <5>1. closed \in after
          BY <4>3, <4>4 DEF WriteVersion, CloseCurrent
        <5>2. closed.from = u.from
          BY <3>3, <4>2 DEF Version
        <5> HIDE DEF closed
        <5>3. v.from = u.from
          BY <1>2, <5>1, <5>2
        <5> QED
          BY <2>2, <3>3, <4>2, <4>4, <5>3 DEF Years
      <4>5. y <= u.from
        BY <3>3, <4>2, <4>4 DEF Years
      <4>6. ASSUME NEW w \in vs, w # u PROVE FALSE
        <5>1. w = v /\ ~IsOpen(w)
          BY <1>2, <3>2, <4>2, <4>3, <4>6 DEF OpenRows
        <5> QED
          BY <1>2, <5>1
      <4>7. u.from <= r.from
        BY <3>1, <4>2, <4>6 DEF Edited
      <4> QED
        BY <2>2, <3>1, <3>3, <4>2, <4>5, <4>7 DEF Years
    <3> QED
      BY <3>4, <3>5
  <2> QED
    BY <2>2, <2>3, <2>4 DEF IsEdit
<1> QED
  BY <1>1, <1>2 DEF Edited

\* An edit for year y reaches no earlier year.
LEMMA EditKeepsPast ==
  ASSUME NEW P, Dated(P), NEW r \in P, NEW vs \in SUBSET Version(P), IsFiniteSet(vs),
         Sound(r, vs), Edited(r, vs),
         NEW id \in Nat, NEW y \in Years, NEW type, NEW new, NEW payload \in P, NEW previous,
         IsEdit(r, y, type, new, previous), type = "create" => r.abolished # NULL,
         NEW x \in Years, x < y
  PROVE  Tells(new, WriteVersion(vs, id, y, type, payload, previous), x) = Tells(r, vs, x)
<1> DEFINE after == WriteVersion(vs, id, y, type, payload, previous)
<1>1. after \in SUBSET Version(P) /\ IsFiniteSet(after)
  BY WriteVersionType, WriteVersionFinite DEF IsEdit, ChangeTypes
<1>2. r.from \in Years /\ r.abolished \in YearOrNull
  BY DEF Dated
<1>3. CASE after = {}
  <2>1. type = "abolish" /\ y <= r.from /\ \A v \in vs : y <= v.from
    BY <1>3, NoRowsLeft
  <2>2. r.abolished = NULL /\ new.from = r.from /\ new.abolished = y
    BY <2>1 DEF IsEdit
  <2>3. ~ActiveInYear(after, x, new.from, new.abolished)
    BY <1>2, <1>3, <2>1, <2>2 DEF ActiveInYear, ActiveAt, Years
  <2>4. ~ActiveInYear(vs, x, r.from, r.abolished)
    BY <1>2, <2>1, <2>2 DEF ActiveInYear, ActiveAt, Years, Covers, Version
  <2> QED
    BY <2>3, <2>4 DEF Tells
<1>4. CASE after # {} /\ vs # {}
  <2>1. OpenRows(vs) # {} \/ type \notin {"update", "abolish"}
    BY <1>4 DEF IsEdit, Sound
  <2>2. OverlayPayload(after, x) = OverlayPayload(vs, x)
    BY <2>1, WriteVersionKeepsPast
  <2> QED
    BY <1>1, <1>4, <2>2, TellsRows
<1>5. CASE vs = {} /\ type # "create"
  <2>1. r.abolished = NULL /\ previous = r /\ r.from = MinYear
    BY <1>5 DEF IsEdit, Sound, OpenRows
  <2>2. Tells(r, vs, x) = {r}
    BY <1>5, <2>1 DEF Tells, ActiveInYear, ActiveAt, OverlayPayload, First, Years
  <2>3. OverlayPayload(after, x) = {r} /\ after # {}
    BY <1>5, <2>1, BackfillShows DEF IsEdit
  <2> QED
    BY <1>1, <2>2, <2>3, TellsRows
<1>6. CASE vs = {} /\ type = "create"
  <2>1. r.abolished # NULL /\ r.abolished <= r.from
    BY <1>6 DEF Edited
  <2>2. Tells(r, vs, x) = {}
    BY <1>2, <1>6, <2>1 DEF Tells, ActiveInYear, ActiveAt, Years, YearOrNull
  <2>3. after = OpenFrom(id, y, type, payload) /\ after # {}
    BY <1>6 DEF WriteVersion, CloseCurrent, First, OpenRows, Backfill, OpenFrom
  <2>4. \A v \in after : ~Covers(v, x)
    BY <2>3 DEF OpenFrom, Covers, Years
  <2> QED
    BY <2>2, <2>3, <2>4 DEF Tells, ActiveInYear
<1> QED
  BY <1>3, <1>4, <1>5, <1>6

\* Nor does the creation of what never was there.
LEMMA CreationKeepsPast ==
  ASSUME NEW new, NEW id, NEW y \in Years, NEW payload, NEW previous, NEW x \in Years, x < y
  PROVE  Tells(new, WriteVersion({}, id, y, "create", payload, previous), x) = {}
<1> DEFINE after == WriteVersion({}, id, y, "create", payload, previous)
<1>1. after = OpenFrom(id, y, "create", payload) /\ after # {}
  BY DEF WriteVersion, CloseCurrent, First, OpenRows, Backfill, OpenFrom
<1>2. \A v \in after : ~Covers(v, x)
  BY <1>1 DEF OpenFrom, Covers, Years
<1> QED
  BY <1>1, <1>2 DEF Tells, ActiveInYear

\* When nothing was written for a year after x, year x shows the live plan.
LEMMA NowShows ==
  ASSUME NEW P, Dated(P), NEW r \in P, NEW vs \in SUBSET Version(P), Sound(r, vs), Edited(r, vs),
         r.abolished # NULL => OpenRows(vs) = {},
         NEW x \in Years, \A v \in vs : IF IsOpen(v) THEN v.from <= x ELSE v.to < x
  PROVE  Tells(r, vs, x) = IF r.abolished # NULL THEN {}
                           ELSE IF vs = {} THEN {r} ELSE {v.payload : v \in OpenRows(vs)}
<1>1. r.from \in Years /\ r.abolished \in YearOrNull
  BY DEF Dated
<1>2. {v \in vs : Covers(v, x)} = OpenRows(vs)
  BY DEF Covers, OpenRows, IsOpen, Version, Years, YearOrNull
<1>3. First(OpenRows(vs)) = OpenRows(vs)
  BY DEF First, OpenRows, Before, Version, Years, Sound
<1>4. OverlayPayload(vs, x) = {v.payload : v \in OpenRows(vs)}
  BY <1>2, <1>3 DEF OverlayPayload
<1>5. CASE r.abolished # NULL
  <2>1. ~ActiveInYear(vs, x, r.from, r.abolished)
    BY <1>1, <1>2, <1>5 DEF ActiveInYear, ActiveAt, Edited, Years, YearOrNull
  <2> QED
    BY <1>5, <2>1 DEF Tells
<1>6. CASE r.abolished = NULL /\ vs = {}
  <2>1. r.from = MinYear
    BY <1>6 DEF Sound, OpenRows
  <2>2. OverlayPayload(vs, x) = {}
    BY <1>4, <1>6 DEF OpenRows
  <2> QED
    BY <1>6, <2>1, <2>2 DEF Tells, ActiveInYear, ActiveAt, Years
<1>7. CASE r.abolished = NULL /\ vs # {}
  <2>1. OpenRows(vs) # {}
    BY <1>7 DEF Sound
  <2>2. ActiveInYear(vs, x, r.from, r.abolished)
    BY <1>2, <1>7, <2>1 DEF ActiveInYear
  <2>3. OverlayPayload(vs, x) # {}
    BY <1>4, <2>1
  <2> QED
    BY <1>4, <1>7, <2>2, <2>3 DEF Tells
<1> QED
  BY <1>5, <1>6, <1>7

-----------------------------------------------------------------------------
(* Lists.                                                                  *)

IsList(s) == Len(s) \in Nat /\ s = [i \in 1..Len(s) |-> s[i]]

LEMMA ListIsSeq ==
  ASSUME NEW s, IsList(s), NEW S, \A i \in 1..Len(s) : s[i] \in S
  PROVE  s \in Seq(S)
<1>1. [i \in 1..Len(s) |-> s[i]] \in [1..Len(s) -> S]
  OBVIOUS
<1> QED
  BY <1>1, SeqDef DEF IsList

LEMMA SeqIsList ==
  ASSUME NEW S, NEW s \in Seq(S)
  PROVE  IsList(s) /\ \A i \in 1..Len(s) : s[i] \in S
BY LenProperties DEF IsList

\* A function on the first numbers is a list.
LEMMA FunctionIsList ==
  ASSUME NEW n \in Nat, NEW s, s = [i \in 1..n |-> s[i]]
  PROVE  IsList(s) /\ Len(s) = n
<1> DEFINE S == {s[i] : i \in 1..n}
<1>1. \A i \in 1..n : s[i] \in S
  OBVIOUS
<1> HIDE DEF S
<1>2. [i \in 1..n |-> s[i]] \in [1..n -> S]
  BY <1>1
<1>3. s \in Seq(S)
  BY <1>2, SeqDef
<1>4. DOMAIN s = 1..n
  OBVIOUS
<1> QED
  BY <1>3, <1>4, SeqIsList, LenProperties

LEMMA ConcatList ==
  ASSUME NEW s, IsList(s), NEW t, IsList(t)
  PROVE  /\ IsList(s \o t) /\ Len(s \o t) = Len(s) + Len(t)
         /\ \A i \in 1..Len(s) : (s \o t)[i] = s[i]
         /\ \A i \in 1..Len(t) : (s \o t)[Len(s) + i] = t[i]
<1> DEFINE S == {s[i] : i \in 1..Len(s)} \cup {t[i] : i \in 1..Len(t)}
<1>1. s \in Seq(S) /\ t \in Seq(S)
  <2>1. \A i \in 1..Len(s) : s[i] \in S
    OBVIOUS
  <2>2. \A i \in 1..Len(t) : t[i] \in S
    OBVIOUS
  <2> HIDE DEF S
  <2> QED
    BY <2>1, <2>2, ListIsSeq
<1> HIDE DEF S
<1>2. Len(s) \in Nat /\ Len(t) \in Nat
  BY DEF IsList
<1>3. s \o t \in Seq(S) /\ Len(s \o t) = Len(s) + Len(t)
      /\ \A i \in 1..(Len(s) + Len(t)) : (s \o t)[i] = IF i <= Len(s) THEN s[i] ELSE t[i - Len(s)]
  BY <1>1, ConcatProperties
<1>4. IsList(s \o t)
  BY <1>3, SeqIsList
<1>5. \A i \in 1..Len(s) : (s \o t)[i] = s[i]
  BY <1>2, <1>3
<1>6. \A i \in 1..Len(t) : (s \o t)[Len(s) + i] = t[i]
  BY <1>2, <1>3
<1> QED
  BY <1>3, <1>4, <1>5, <1>6

LEMMA TailList ==
  ASSUME NEW s, IsList(s), s # <<>>
  PROVE  /\ Len(s) \in Nat \ {0} /\ IsList(Tail(s)) /\ Len(Tail(s)) = Len(s) - 1
         /\ \A i \in 1..(Len(s) - 1) : Tail(s)[i] = s[i + 1]
<1> DEFINE S == {s[i] : i \in 1..Len(s)}
<1>1. s \in Seq(S)
  <2>1. \A i \in 1..Len(s) : s[i] \in S
    OBVIOUS
  <2> HIDE DEF S
  <2> QED
    BY <2>1, ListIsSeq
<1> HIDE DEF S
<1>2. Len(s) \in Nat \ {0}
  BY <1>1, EmptySeq DEF IsList
<1>3. Tail(s) \in Seq(S) /\ Len(Tail(s)) = Len(s) - 1
      /\ \A i \in 1..Len(Tail(s)) : Tail(s)[i] = s[i + 1]
  BY <1>1, HeadTailProperties
<1> QED
  BY <1>2, <1>3, SeqIsList

LEMMA EmptyList == IsList(<<>>) /\ Len(<<>>) = 0
<1>1. <<>> \in Seq({0})
  OBVIOUS
<1> QED
  BY <1>1, SeqIsList

LEMMA ShortLists ==
  ASSUME NEW a, NEW b
  PROVE  /\ IsList(<<a>>) /\ Len(<<a>>) = 1 /\ <<a>>[1] = a
         /\ IsList(<<a, b>>) /\ Len(<<a, b>>) = 2 /\ <<a, b>>[1] = a /\ <<a, b>>[2] = b
<1>1. <<a>> \in Seq({a, b}) /\ <<a, b>> \in Seq({a, b})
  OBVIOUS
<1>2. IsList(<<a>>) /\ IsList(<<a, b>>)
  BY <1>1, SeqIsList
<1> QED
  BY <1>2

LEMMA AppendList ==
  ASSUME NEW s, IsList(s), NEW a
  PROVE  Append(s, a) = s \o <<a>>
<1> DEFINE S == {s[i] : i \in 1..Len(s)} \cup {a}
<1>1. s \in Seq(S) /\ a \in S
  <2>1. \A i \in 1..Len(s) : s[i] \in S
    OBVIOUS
  <2> HIDE DEF S
  <2> QED
    BY <2>1, ListIsSeq DEF S
<1> HIDE DEF S
<1> QED
  BY <1>1, AppendIsConcat

\* B[f] are those before f in a strict total order.
Orders(B, R) ==
  /\ B \in [R -> SUBSET R] /\ \A f \in R : f \notin B[f]
  /\ \A f, g \in R : f # g => f \in B[g] \/ g \in B[f]
  /\ \A f, g, h \in R : f \in B[g] /\ g \in B[h] => f \in B[h]

\* The places in a list run through all numbers, each once.
LEMMA PlacesRun ==
  ASSUME NEW R, IsFiniteSet(R), NEW B, Orders(B, R)
  PROVE  /\ Cardinality(R) \in Nat
         /\ \A f \in R : IsFiniteSet(B[f]) /\ Cardinality(B[f]) \in 0..(Cardinality(R) - 1)
         /\ \A f, g \in R : Cardinality(B[f]) = Cardinality(B[g]) => f = g
         /\ \A k \in 0..(Cardinality(R) - 1) : \E f \in R : Cardinality(B[f]) = k
<1> DEFINE n == Cardinality(R)
           place == [f \in R |-> Cardinality(B[f])]
<1>1. n \in Nat
  BY FS_CardinalityType
<1>2. ASSUME NEW f \in R
      PROVE  IsFiniteSet(B[f]) /\ Cardinality(B[f]) \in 0..(n - 1)
  <2>1. B[f] \in SUBSET (R \ {f})
    BY DEF Orders
  <2>2. IsFiniteSet(R \ {f}) /\ Cardinality(R \ {f}) = n - 1
    BY FS_RemoveElement
  <2>3. IsFiniteSet(B[f]) /\ Cardinality(B[f]) <= n - 1
    BY <2>1, <2>2, FS_Subset
  <2> QED
    BY <1>1, <2>3, FS_CardinalityType
<1>3. ASSUME NEW f \in R, NEW g \in R, f \in B[g]
      PROVE  Cardinality(B[f]) # Cardinality(B[g])
  <2>1. B[f] \in SUBSET B[g] /\ f \notin B[f]
    BY <1>3 DEF Orders
  <2> QED
    BY <1>2, <1>3, <2>1, FS_Subset
<1>4. ASSUME NEW f \in R, NEW g \in R, f # g
      PROVE  Cardinality(B[f]) # Cardinality(B[g])
  BY <1>3, <1>4 DEF Orders
<1>5. place \in Injection(R, 0..(n - 1))
  BY <1>2, <1>4 DEF Injection, IsInjective
<1>6. IsFiniteSet(0..(n - 1)) /\ Cardinality(0..(n - 1)) = n
  <2> HIDE DEF n
  <2>1. 0 \in Int /\ n - 1 \in Int
    BY <1>1
  <2> QED
    BY <1>1, <2>1, FS_Interval
<1>7. place \in Surjection(R, 0..(n - 1))
  BY <1>5, <1>6, FS_Injection
<1>8. \A k \in 0..(n - 1) : \E f \in R : place[f] = k
  BY <1>7 DEF Surjection
<1> QED
  BY <1>1, <1>2, <1>4, <1>8
=============================================================================
