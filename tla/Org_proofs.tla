----------------------------- MODULE Org_proofs -----------------------------
(***************************************************************************)
(* Proofs about the organisation and its annual notes, for every number of *)
(* nodes, years, requests and rows.                                        *)
(*                                                                         *)
(* The notes: EventsInv says what a sync that nobody has disturbed still   *)
(* knows (the facts it read are those of the log, the rows it read those   *)
(* of the table), and that nothing but such a sync may end the need for    *)
(* one.                                                                    *)
(*                                                                         *)
(* The trees: Told relates the version rows of one node to its live row    *)
(* after any history; Ahead adds what holds when no request was for an     *)
(* earlier year than the one before and none was a rollback.  Both are     *)
(* kept by writeVersion for one node (WriteTold, EditKeepsAhead), so by    *)
(* Commit for all the nodes of a request (CommitHeaded); what an action    *)
(* has to show for itself is that the live rows still make a tree          *)
(* (Upheld).                                                               *)
(***************************************************************************)
EXTENDS MCOrg, ItemVersions_proofs

USE EventsAssumption

-----------------------------------------------------------------------------
(* The annual notes                                                        *)

\* Rows of the year as some query gave them: each id once, none that is still to come.
Rows(rows, next) ==
  /\ rows \in SUBSET Note
  /\ \A r \in rows : r.id < next
  /\ \A r, s \in rows : r.id = s.id => r = s

SyncRecord ==
  [pc : {"idle", "log"}] \cup [pc : {"rows"}, generated : SUBSET Facts]
    \cup [pc : {"write"}, generated : SUBSET Facts, found : SUBSET Note]

\* A sync that nothing has disturbed writes what the tables hold.
Undisturbed(q) ==
  /\ sync[q].pc \in {"rows", "write"} /\ sync[q].generated = logged
  /\ sync[q].pc = "write" => sync[q].found = events
  /\ \A p \in Syncs \ {q} : sync[p] = IdleSync

EventsInv ==
  /\ logged \in SUBSET Facts /\ nextRow \in 1..(MaxRows + 1) /\ due \in BOOLEAN
  /\ Rows(events, nextRow) /\ \A r \in events : r.content # NoContent
  /\ sync \in [Syncs -> SyncRecord]
  /\ \A q \in Syncs : sync[q].pc = "write" => Rows(sync[q].found, nextRow)
  /\ alone \in Syncs => Undisturbed(alone)
  /\ ~due => (\A q \in Syncs : sync[q] = IdleSync) /\ SyncTellsLog

\* A non-empty set of rows has an oldest one.
LEMMA OldestExists ==
  ASSUME NEW rows \in SUBSET Note, rows # {}
  PROVE  Oldest(rows) \in rows /\ \A s \in rows : Oldest(rows).id <= s.id
<1> DEFINE R == {p \in Nat \X Nat : p[1] < p[2]}
           ids == {r.id : r \in rows}
<1>1. ids \subseteq Nat /\ ids # {}
  BY DEF Note
<1>2. IsWellFoundedOn(R, Nat)
  <2>1. R = OpToRel(<, Nat)
    BY Zenon DEF OpToRel
  <2> QED
    BY <2>1, NatLessThanWellFounded
<1>3. PICK x \in ids : \A y \in ids : <<y, x>> \notin R
  <2> HIDE DEF R, ids
  <2> QED
    BY <1>1, <1>2, WFMin
<1>4. \A y \in ids : x <= y
  <2> SUFFICES ASSUME NEW y \in ids, y < x PROVE FALSE
    BY <1>1
  <2>1. <<y, x>> \in R
    BY <1>1
  <2> QED
    BY <1>3, <2>1
<1>5. \E r \in rows : \A s \in rows : r.id <= s.id
  BY <1>4
<1> QED
  BY <1>5 DEF Oldest

\* The row of the lowest id, when no other has it, is the oldest.
LEMMA OldestIs ==
  ASSUME NEW rows \in SUBSET Note, NEW r \in rows,
         \A s \in rows : s # r => r.id < s.id
  PROVE  Oldest(rows) = r
<1>1. Oldest(rows) \in rows /\ Oldest(rows).id <= r.id
  BY OldestExists
<1> QED
  BY <1>1 DEF Note

LEMMA NotesAreContent ==
  /\ NoContent \in Content
  /\ \A auto \in SUBSET Facts : [NoContent EXCEPT !.facts = auto] \in Content
                                /\ [NoContent EXCEPT !.facts = auto].facts = auto
  /\ \A free \in SUBSET Remarks : [NoContent EXCEPT !.free = free] \in Content
                                  /\ [NoContent EXCEPT !.free = free].free = free
BY DEF NoContent, Content

\* The merged text tells the facts of the log and no others.
LEMMA MergeTells ==
  ASSUME NEW old \in Content, NEW auto, NEW generated \in SUBSET Facts
  PROVE  Merge(old, auto, generated) \in Content /\ Merge(old, auto, generated).facts = generated
<1>1. [NoContent EXCEPT !.facts = generated] \in Content /\ [NoContent EXCEPT !.facts = generated].facts = generated
  BY NotesAreContent
<1>2. \A free, labelled \in SUBSET Remarks :
         [free |-> free, labelled |-> labelled, facts |-> generated] \in Content
  BY DEF Content
<1> QED
  BY <1>1, <1>2 DEF Merge, Content

LEMMA InitEvents == EventsInit => EventsInv
<1> SUFFICES ASSUME EventsInit PROVE EventsInv
  OBVIOUS
<1>1. sync \in [Syncs -> SyncRecord] /\ \A q \in Syncs : sync[q].pc = "idle"
  BY DEF EventsInit, IdleSync, SyncRecord
<1>2. SyncTellsLog
  BY DEF EventsInit, SyncTellsLog
<1>3. nextRow \in 1..(MaxRows + 1) /\ Rows(events, nextRow)
  BY DEF EventsInit, Rows
<1> QED
  BY <1>1, <1>2, <1>3 DEF EventsInit, EventsInv

\* What a request reads, and where it stands.
LEMMA SyncCases ==
  ASSUME EventsInv, NEW q \in Syncs
  PROVE  /\ sync[q].pc \in {"idle", "log", "rows", "write"}
         /\ sync[q].pc = "rows" => sync[q].generated \in SUBSET Facts
         /\ sync[q].pc = "write" => /\ sync[q].generated \in SUBSET Facts
                                    /\ Rows(sync[q].found, nextRow)
         /\ sync[q].pc # "idle" => due
<1>1. sync[q] \in SyncRecord
  BY DEF EventsInv
<1>2. IdleSync.pc = "idle"
  BY DEF IdleSync
<1> QED
  BY <1>1, <1>2 DEF SyncRecord, EventsInv

\* Rows that were read stay rows when more have been made.
LEMMA RowsLater ==
  ASSUME NEW m \in Nat, NEW n \in Nat, m <= n, NEW rows, Rows(rows, m)
  PROVE  Rows(rows, n)
BY DEF Rows, Note

LEMMA RecordChangeStep ==
  ASSUME EventsInv, NEW q \in Syncs, NEW new \in SUBSET Facts, RecordChange(q, new)
  PROVE  EventsInv'
<1>1. sync' \in [Syncs -> SyncRecord] /\ sync'[q].pc = "log" /\ \A p \in Syncs \ {q} : sync'[p] = sync[p]
  BY DEF EventsInv, RecordChange, SyncRecord
<1>2. Rows(events', nextRow') /\ \A p \in Syncs : sync'[p].pc = "write" => Rows(sync'[p].found, nextRow')
  BY <1>1 DEF EventsInv, RecordChange
<1> QED
  BY <1>1, <1>2 DEF EventsInv, RecordChange

LEMMA ReadLogStep ==
  ASSUME EventsInv, NEW q \in Syncs, ReadLog(q)
  PROVE  EventsInv'
<1>1. /\ sync' \in [Syncs -> SyncRecord] /\ sync'[q].pc = "rows" /\ sync'[q].generated = logged
      /\ \A p \in Syncs \ {q} : sync'[p] = sync[p]
  BY DEF EventsInv, ReadLog, SyncRecord
<1>2. Rows(events', nextRow') /\ \A p \in Syncs : sync'[p].pc = "write" => Rows(sync'[p].found, nextRow')
  BY <1>1 DEF EventsInv, ReadLog
<1>3. alone' \in Syncs => Undisturbed(alone)'
  BY <1>1 DEF ReadLog, Undisturbed
<1>4. due' = TRUE
  BY SyncCases DEF ReadLog, EventsInv
<1> QED
  BY <1>1, <1>2, <1>3, <1>4 DEF EventsInv, ReadLog

LEMMA ReadRowsStep ==
  ASSUME EventsInv, NEW q \in Syncs, ReadRows(q)
  PROVE  EventsInv'
<1> DEFINE new == [pc |-> "write", generated |-> sync[q].generated, found |-> events]
<1>1. sync' = [sync EXCEPT ![q] = new]
  BY DEF ReadRows
<1>2. /\ new \in SyncRecord /\ new.pc = "write" /\ new.generated = sync[q].generated
      /\ new.found = events
  BY SyncCases DEF EventsInv, ReadRows, SyncRecord, Rows
<1> HIDE DEF new
<1>3. sync' \in [Syncs -> SyncRecord] /\ sync'[q] = new /\ \A p \in Syncs \ {q} : sync'[p] = sync[p]
  BY <1>1, <1>2 DEF EventsInv
<1>4. Rows(events', nextRow') /\ \A p \in Syncs : sync'[p].pc = "write" => Rows(sync'[p].found, nextRow')
  BY <1>2, <1>3 DEF EventsInv, ReadRows
<1>5. alone' \in Syncs => Undisturbed(alone)'
  <2> SUFFICES ASSUME alone \in Syncs PROVE Undisturbed(alone)'
    BY DEF ReadRows
  <2>1. Undisturbed(alone)
    BY DEF EventsInv
  <2>2. alone = q
    BY <2>1 DEF Undisturbed, ReadRows, IdleSync
  <2> QED
    BY <1>2, <1>3, <2>1, <2>2 DEF Undisturbed, ReadRows
<1>6. due' = TRUE
  BY SyncCases DEF ReadRows, EventsInv
<1> QED
  BY <1>3, <1>4, <1>5, <1>6 DEF EventsInv, ReadRows

\* An administrator's edit that leaves rows of the year, none of them empty.
LEMMA ByHandStep ==
  ASSUME EventsInv, NEW rows, ByHand(rows), nextRow' \in 1..(MaxRows + 1), nextRow <= nextRow',
         Rows(rows, nextRow'), \A r \in rows : r.content # NoContent
  PROVE  EventsInv'
<1>1. \A p \in Syncs : sync[p].pc = "write" => Rows(sync[p].found, nextRow')
  BY RowsLater DEF EventsInv
<1> QED
  BY <1>1 DEF EventsInv, ByHand

LEMMA CreateEventStep ==
  ASSUME EventsInv, NEW remarks \in SUBSET Remarks, CreateEvent(remarks)
  PROVE  EventsInv'
<1> DEFINE new == [id |-> nextRow, content |-> [NoContent EXCEPT !.free = remarks], auto |-> {}]
<1>1. new \in Note /\ new.id = nextRow /\ new.content # NoContent
  BY NotesAreContent DEF Note, CreateEvent, EventsInv, NoContent
<1>2. ByHand(events \cup {new}) /\ nextRow' = nextRow + 1 /\ nextRow <= MaxRows
  BY DEF CreateEvent
<1> HIDE DEF new
<1>3. Rows(events \cup {new}, nextRow')
  BY <1>1, <1>2 DEF Rows, EventsInv, Note, ByHand
<1> QED
  BY <1>1, <1>2, <1>3, ByHandStep DEF EventsInv

LEMMA UpdateEventStep ==
  ASSUME EventsInv, NEW r \in events, NEW content \in Content, UpdateEvent(r, content)
  PROVE  EventsInv'
<1> DEFINE new == [r EXCEPT !.content = content]
<1>1. r \in Note /\ new \in Note /\ new.id = r.id /\ new.content # NoContent
  BY DEF Note, UpdateEvent, EventsInv, Rows
<1>2. ByHand((events \ {r}) \cup {new}) /\ nextRow' = nextRow
  BY DEF UpdateEvent
<1> HIDE DEF new
<1>3. Rows((events \ {r}) \cup {new}, nextRow')
  BY <1>1, <1>2 DEF Rows, EventsInv, Note, ByHand
<1> QED
  BY <1>1, <1>2, <1>3, ByHandStep DEF EventsInv

LEMMA RemoveEventStep ==
  ASSUME EventsInv, NEW r \in events, RemoveEvent(r)
  PROVE  EventsInv'
<1>1. ByHand(events \ {r}) /\ nextRow' = nextRow
  BY DEF RemoveEvent
<1>2. Rows(events \ {r}, nextRow')
  BY <1>1 DEF Rows, EventsInv, ByHand
<1> QED
  BY <1>1, <1>2, ByHandStep DEF EventsInv

\* The rows tell the facts, and tell them once.
Tell(rows, facts) ==
  /\ facts # {} => rows # {} /\ Oldest(rows).content.facts = facts
  /\ \A r \in rows : r = Oldest(rows) \/ r.auto = {} \/ ~IsAuto(r)

\* What the last step of a sync writes: rows again; and rows that tell the facts it
\* read when nobody has touched the rows since it read them.
LEMMA WriteRowWrites ==
  ASSUME EventsInv, NEW q \in Syncs, WriteRow(q)
  PROVE  /\ nextRow' \in 1..(MaxRows + 1) /\ nextRow <= nextRow'
         /\ Rows(events', nextRow') /\ \A r \in events' : r.content # NoContent
         /\ sync[q].found = events => Tell(events', sync[q].generated)
<1> DEFINE found == sync[q].found
           generated == sync[q].generated
           first == Oldest(found)
           merged == [first EXCEPT !.content = Merge(first.content, first.auto, generated), !.auto = generated]
           saved == IF merged.content = NoContent THEN {} ELSE {merged}
           new == [id |-> nextRow, content |-> [NoContent EXCEPT !.facts = generated], auto |-> generated]
<1>1. generated \in SUBSET Facts /\ Rows(found, nextRow) /\ Rows(events, nextRow)
  BY SyncCases DEF WriteRow, EventsInv
<1>2. nextRow \in Nat /\ nextRow \in 1..(MaxRows + 1) /\ \A r \in events : r.content # NoContent
  BY DEF EventsInv
<1>3. CASE found = {} /\ generated # {}
  <2>1. events' = events \cup {new} /\ nextRow' = nextRow + 1 /\ nextRow <= MaxRows
    BY <1>3 DEF WriteRow
  <2>2. new \in Note /\ new.id = nextRow /\ new.content # NoContent /\ new.content.facts = generated
    BY <1>1, <1>2, <1>3, <2>1, NotesAreContent DEF Note, NoContent
  <2> HIDE DEF new
  <2>3. Rows(events', nextRow')
    BY <1>1, <1>2, <2>1, <2>2 DEF Rows, Note
  <2>4. found = events => events' = {new} /\ Oldest(events') = new
    <3> SUFFICES ASSUME found = events PROVE events' = {new} /\ Oldest(events') = new
      OBVIOUS
    <3>1. events' = {new}
      BY <1>3, <2>1
    <3>2. Oldest({new}) = new
      BY <2>2, OldestIs
    <3> QED
      BY <3>1, <3>2
  <2>5. found = events => Tell(events', generated)
    BY <2>2, <2>4 DEF Tell
  <2> QED
    BY <1>2, <2>1, <2>2, <2>3, <2>5
<1>4. CASE found = {} /\ generated = {}
  <2>1. events' = events /\ nextRow' = nextRow
    BY <1>4 DEF WriteRow
  <2>2. found = events => Tell(events', generated)
    BY <1>4, <2>1 DEF Tell
  <2> QED
    BY <1>1, <1>2, <2>1, <2>2
<1>5. CASE found # {}
  <2>1. events' = Without(Without(events, {first.id}) \cup saved, Redundant(found)) /\ nextRow' = nextRow
    BY <1>5 DEF WriteRow
  <2>2. first \in found /\ first \in Note /\ first.id < nextRow /\ \A s \in found : first.id <= s.id
    BY <1>1, <1>5, OldestExists DEF Rows
  <2>3. /\ merged \in Note /\ merged.id = first.id /\ merged.auto = generated
        /\ merged.content.facts = generated
    <3>1. Merge(first.content, first.auto, generated) \in Content
          /\ Merge(first.content, first.auto, generated).facts = generated
      BY <1>1, <2>2, MergeTells DEF Note
    <3> QED
      BY <1>1, <2>2, <3>1 DEF Note
  <2> HIDE DEF merged
  <2>4. events' \in SUBSET (events \cup {merged})
        /\ (\A r \in events' : r = merged \/ r.id # first.id)
        /\ (merged \in events' => merged.content # NoContent)
    BY <1>2, <2>1 DEF Without
  <2>5. \A r \in events' : r.content # NoContent
    BY <1>2, <2>4
  <2>6. Rows(events', nextRow')
    BY <1>1, <1>2, <2>1, <2>2, <2>3, <2>4 DEF Rows, Note
  <2>7. ASSUME found = events
        PROVE  Tell(events', generated)
    <3>1. \A r \in events' : r # merged => r.auto = {} \/ ~IsAuto(r)
      <4> SUFFICES ASSUME NEW r \in events', r # merged, r.auto # {}, IsAuto(r) PROVE FALSE
        OBVIOUS
      <4>1. r \in found \ {first}
        BY <2>4, <2>7
      <4>2. r.id \in Redundant(found)
        BY <4>1 DEF Redundant
      <4> QED
        BY <2>1, <4>2 DEF Without
    <3>2. merged.content # NoContent => merged \in events'
      <4> SUFFICES ASSUME merged.content # NoContent PROVE merged \in events'
        OBVIOUS
      <4>1. first.id \notin Redundant(found)
        BY <1>1, <2>2 DEF Redundant, Rows
      <4> QED
        BY <2>1, <2>3, <4>1 DEF Without
    <3>3. ASSUME merged \in events'
          PROVE  Oldest(events') = merged
      <4>1. \A s \in events' : s # merged => merged.id < s.id
        <5> SUFFICES ASSUME NEW s \in events', s # merged PROVE merged.id < s.id
          OBVIOUS
        <5>1. s \in found /\ s.id # first.id /\ s \in Note
          BY <1>1, <2>4, <2>7 DEF Rows
        <5> QED
          BY <2>2, <2>3, <5>1 DEF Note
      <4>2. events' \in SUBSET Note
        BY <2>6 DEF Rows
      <4> QED
        BY <3>3, <4>1, <4>2, OldestIs
    <3>4. generated # {} => merged.content # NoContent
      BY <2>3 DEF NoContent
    <3> QED
      BY <2>3, <3>1, <3>2, <3>3, <3>4 DEF Tell
  <2>8. nextRow' \in 1..(MaxRows + 1) /\ nextRow <= nextRow'
    BY <1>2, <2>1
  <2> QED
    BY <2>5, <2>6, <2>7, <2>8
<1> QED
  BY <1>3, <1>4, <1>5

LEMMA WriteRowStep ==
  ASSUME EventsInv, NEW q \in Syncs, WriteRow(q)
  PROVE  EventsInv'
<1>1. sync' \in [Syncs -> SyncRecord] /\ sync'[q] = IdleSync /\ \A p \in Syncs \ {q} : sync'[p] = sync[p]
  BY DEF EventsInv, WriteRow, SyncRecord, IdleSync
<1>2. \A p \in Syncs : sync'[p].pc = "write" => Rows(sync'[p].found, nextRow')
  BY <1>1, WriteRowWrites, RowsLater DEF EventsInv, IdleSync
<1>3. sync[q].pc = "write" /\ due /\ due' = (due /\ alone # q) /\ alone' = NULL /\ logged' = logged
  BY SyncCases DEF WriteRow
<1>4. ASSUME ~due'
      PROVE  (\A p \in Syncs : sync'[p] = IdleSync) /\ SyncTellsLog'
  <2>1. alone = q /\ Undisturbed(q)
    BY <1>3, <1>4 DEF EventsInv
  <2>2. Tell(events', logged')
    BY <1>3, <2>1, WriteRowWrites DEF Undisturbed
  <2> QED
    BY <1>1, <2>1, <2>2 DEF Undisturbed, Tell, SyncTellsLog
<1> QED
  BY <1>1, <1>2, <1>3, <1>4, WriteRowWrites DEF EventsInv

LEMMA EventsStep == EventsInv /\ [EventsNext]_evars => EventsInv'
<1> SUFFICES ASSUME EventsInv, [EventsNext]_evars PROVE EventsInv'
  OBVIOUS
<1>1. CASE UNCHANGED evars
  BY <1>1 DEF evars, EventsInv, Undisturbed, SyncTellsLog
<1>2. CASE EventsNext
  <2>1. \A f \in Facts : {f} \in SUBSET Facts
    OBVIOUS
  <2>2. ASSUME NEW q \in Syncs, (\E f \in Facts : RecordChange(q, {f})) \/ RecordChange(q, {})
        PROVE  EventsInv'
    BY <2>1, <2>2, RecordChangeStep
  <2> QED
    BY <1>2, <2>2, ReadLogStep, ReadRowsStep, WriteRowStep, CreateEventStep, RemoveEventStep,
       UpdateEventStep DEF EventsNext
<1> QED
  BY <1>1, <1>2

\* After a sync that nothing disturbs the note of the year tells the facts of the
\* change log, no more and no less, and once: whatever the other requests had read
\* and written before, and whatever administrators did to the rows by hand.
THEOREM NotesTellLog == MCSpec => []SyncTellsLog
<1>1. MCInit => EventsInv
  BY InitEvents DEF MCInit
<1>2. EventsInv /\ [MCNext]_<<scene, ovars, evars>> => EventsInv'
  <2>1. [MCNext]_<<scene, ovars, evars>> => [EventsNext]_evars
    BY DEF MCNext
  <2> QED
    BY <2>1, EventsStep
<1>3. EventsInv => SyncTellsLog
  <2> SUFFICES ASSUME EventsInv, ~due PROVE SyncTellsLog
    BY DEF SyncTellsLog
  <2> QED
    BY DEF EventsInv
<1> QED
  BY <1>1, <1>2, <1>3, PTL DEF MCSpec

-----------------------------------------------------------------------------
(* The rows of one node                                                    *)

USE YearsAssumption, NullAssumption, OrgAssumption, OrgRowAssumption

\* What is shown of a node in year x: the payload that covers it, or the live row.
Shows(r, vs, x) ==
  LET overlay == OverlayPayload(vs, x)
  IN CHOOSE p \in IF overlay = {} THEN {r} ELSE overlay : TRUE

\* An open row holds the payload of the live row, and there is one at most; a closed
\* row ends before the last year.
Told(r, vs) ==
  /\ vs \in SUBSET Version(Row) /\ IsFiniteSet(vs)
  /\ \A v, w \in OpenRows(vs) : v = w
  /\ \A v \in vs : IF IsOpen(v) THEN v.payload = r ELSE v.from <= v.to /\ v.to < MaxYear
  /\ r = NULL => vs = {}

\* Nothing was written for a year after m: a node that is abolished has no row in
\* force, one that is not has one from before or was never edited, and the rows leave
\* no year out in which the live row says the node exists.
Ahead(r, vs, m) ==
  /\ r.from <= m
  /\ \A v \in vs : v.from <= m /\ (IsOpen(v) \/ v.to < m)
  /\ IF r.abolished = NULL THEN vs = {} \/ OpenRows(vs) # {} ELSE r.abolished <= m /\ OpenRows(vs) = {}
  /\ vs # {} => \A x \in Years : ActiveAt(r.from, r.abolished, x) => \E v \in vs : Covers(v, x)

\* How an action changes a live row for year y.
Edits(r, new, y, type) ==
  \/ type = "create" /\ r = NULL /\ new.from = y /\ new.abolished = NULL
  \/ /\ type = "update" /\ r # NULL /\ ActiveAt(r.from, r.abolished, y)
     /\ new.from = r.from /\ new.abolished = r.abolished
  \/ /\ type = "abolish" /\ r # NULL /\ ActiveAt(r.from, r.abolished, y)
     /\ new.from = r.from /\ new.abolished = y

\* What is shown of a node is a row.
LEMMA ShowsRow ==
  ASSUME NEW r \in Row, NEW vs \in SUBSET Version(Row), NEW x
  PROVE  Shows(r, vs, x) \in Row
<1>1. OverlayPayload(vs, x) \subseteq Row
  BY DEF OverlayPayload, First, Version
<1> QED
  BY <1>1 DEF Shows

\* In a year after every closed row the live row shows.
LEMMA LatestShows ==
  ASSUME NEW r, NEW vs, Told(r, vs), NEW x \in Years,
         \A v \in vs : IF IsOpen(v) THEN v.from <= x ELSE v.to < x
  PROVE  Shows(r, vs, x) = r
<1>1. OverlayPayload(vs, x) = {v.payload : v \in OpenRows(vs)}
  BY OpenRowsShow DEF Told
<1>2. \A p \in OverlayPayload(vs, x) : p = r
  BY <1>1 DEF Told, OpenRows
<1> QED
  BY <1>2 DEF Shows

LEMMA LastYearShows ==
  ASSUME NEW r, NEW vs, Told(r, vs)
  PROVE  Shows(r, vs, MaxYear) = r
<1>1. MaxYear \in Years
  BY DEF Years
<1>2. \A v \in vs : IF IsOpen(v) THEN v.from <= MaxYear ELSE v.to < MaxYear
  BY DEF Told, Version, Years
<1> QED
  BY <1>1, <1>2, LatestShows

\* Every write keeps the rows in step with the live row.
LEMMA WriteTold ==
  ASSUME NEW r, NEW vs, Told(r, vs), NEW id \in Nat, NEW y \in Years,
         NEW new \in Row, NEW type \in ChangeTypes, NEW previous \in Row
  PROVE  Told(new, WriteVersion(vs, id, y, type, new, previous))
<1> DEFINE ws == WriteVersion(vs, id, y, type, new, previous)
<1>1. ws \in SUBSET Version(Row) /\ IsFiniteSet(ws)
  BY WriteVersionType, WriteVersionFinite DEF Told
<1>2. OpenRows(ws) = OpenFrom(id, y, type, new)
  BY WriteVersionOpen DEF Told
<1>3. \A v, w \in OpenRows(ws) : v = w
  BY <1>2 DEF OpenFrom
<1>4. ASSUME NEW v \in ws
      PROVE  IF IsOpen(v) THEN v.payload = new ELSE v.from <= v.to /\ v.to < MaxYear
  <2>1. CASE IsOpen(v)
    BY <1>2, <2>1 DEF OpenRows, OpenFrom
  <2>2. CASE ~IsOpen(v) /\ v \in vs
    BY <2>2 DEF Told
  <2>3. CASE ~IsOpen(v) /\ \E w \in vs : w.from <= y - 1 /\ v = [w EXCEPT !.to = y - 1]
    <3>1. PICK w \in vs : w.from <= y - 1 /\ v = [w EXCEPT !.to = y - 1]
      BY <2>3
    <3>2. v.from = w.from /\ v.to = y - 1 /\ w.from \in Years /\ w.from <= y - 1
      BY <3>1 DEF Told, Version
    <3>3. v.from <= v.to /\ v.to < MaxYear
      BY <3>2 DEF Years
    <3> QED
      BY <2>3, <3>3
  <2>4. CASE v \in Backfill(vs, id, y, type, previous)
    <3>1. v.from <= v.to /\ v.to < MaxYear
      BY <2>4 DEF Backfill, Years
    <3> QED
      BY <2>1, <3>1
  <2>5. CASE v \in OpenFrom(id, y, type, new)
    BY <2>1, <2>5 DEF OpenFrom, IsOpen
  <2> QED
    BY <2>1, <2>2, <2>3, <2>4, <2>5 DEF WriteVersion, CloseCurrent, First, OpenRows
<1> QED
  BY <1>1, <1>3, <1>4 DEF Told

\* Rows of a node nobody wrote about for a later year than m show, from m on, the live row.
LEMMA AheadShows ==
  ASSUME NEW r \in Row, NEW vs, Told(r, vs), NEW m \in Years, Ahead(r, vs, m),
         NEW x \in Years, m <= x
  PROVE  /\ Shows(r, vs, x) = r
         /\ ActiveAt(r.from, r.abolished, x) <=> r.abolished = NULL
<1>1. \A v \in vs : IF IsOpen(v) THEN v.from <= x ELSE v.to < x
  <2> SUFFICES ASSUME NEW v \in vs PROVE IF IsOpen(v) THEN v.from <= x ELSE v.to < x
    OBVIOUS
  <2>1. v.from \in Int /\ (IsOpen(v) \/ v.to \in Int)
    BY DEF Told, Version, Years, YearOrNull, IsOpen
  <2>2. v.from <= m /\ (IsOpen(v) \/ v.to < m)
    BY DEF Ahead
  <2> QED
    BY <2>1, <2>2 DEF Years
<1>2. r.from \in Years /\ r.abolished \in YearOrNull
  BY DEF Row
<1>3. r.from <= m /\ (r.abolished # NULL => r.abolished <= m)
  BY DEF Ahead
<1>4. ActiveAt(r.from, r.abolished, x) <=> r.abolished = NULL
  BY <1>2, <1>3 DEF ActiveAt, Years, YearOrNull
<1> QED
  BY <1>1, <1>4, LatestShows

LEMMA AheadLater ==
  ASSUME NEW r \in Row, NEW vs, Told(r, vs), NEW m \in Years, Ahead(r, vs, m), NEW y \in Years, m <= y
  PROVE  Ahead(r, vs, y)
<1>1. r.from \in Years /\ r.abolished \in YearOrNull
  BY DEF Row
<1>2. \A v \in vs : v.from <= y /\ (IsOpen(v) \/ v.to < y)
  <2> SUFFICES ASSUME NEW v \in vs PROVE v.from <= y /\ (IsOpen(v) \/ v.to < y)
    OBVIOUS
  <2>1. v.from \in Int /\ (IsOpen(v) \/ v.to \in Int)
    BY DEF Told, Version, Years, YearOrNull, IsOpen
  <2>2. v.from <= m /\ (IsOpen(v) \/ v.to < m)
    BY DEF Ahead
  <2> QED
    BY <2>1, <2>2 DEF Years
<1>3. r.from <= y /\ (r.abolished # NULL => r.abolished <= y)
  BY <1>1 DEF Ahead, Years, YearOrNull
<1> QED
  BY <1>2, <1>3 DEF Ahead

\* An edit for a year that is not before m shows the years before as they were.
LEMMA EditKeepsYears ==
  ASSUME NEW r \in Row, NEW vs, Told(r, vs), NEW m \in Years, Ahead(r, vs, m),
         NEW id \in Nat, NEW y \in Years, m <= y,
         NEW new \in Row, NEW type \in ChangeTypes, Edits(r, new, y, type),
         NEW x \in Years, x < y
  PROVE  LET ws == WriteVersion(vs, id, y, type, new, Shows(r, vs, y))
         IN /\ ActiveAt(new.from, new.abolished, x) <=> ActiveAt(r.from, r.abolished, x)
            /\ ActiveAt(r.from, r.abolished, x) =>
                 Shows(new, ws, x) = Shows(r, vs, x) /\ \E v \in ws : Covers(v, x)
<1> DEFINE ws == WriteVersion(vs, id, y, type, new, Shows(r, vs, y))
<1>1. r # NULL /\ type \in {"update", "abolish"} /\ ActiveAt(r.from, r.abolished, y)
  BY DEF Edits
<1>2. r.abolished = NULL /\ Shows(r, vs, y) = r
  BY <1>1, AheadShows
<1>3. vs \in SUBSET Version(Row) /\ IsFiniteSet(vs)
  BY DEF Told
<1>4. ActiveAt(new.from, new.abolished, x) <=> ActiveAt(r.from, r.abolished, x)
  <2>1. new.from = r.from /\ (new.abolished = NULL \/ new.abolished = y)
    BY <1>2 DEF Edits
  <2> QED
    BY <1>2, <2>1 DEF ActiveAt, Years
<1>5. ASSUME ActiveAt(r.from, r.abolished, x)
      PROVE  Shows(new, ws, x) = Shows(r, vs, x) /\ \E v \in ws : Covers(v, x)
  <2>1. CASE vs = {}
    <3>1. OverlayPayload(ws, x) = {r} /\ \E v \in ws : Covers(v, x)
      BY <1>1, <1>2, <2>1, BackfillShows
    <3>2. OverlayPayload(vs, x) = {}
      BY <2>1 DEF OverlayPayload, First
    <3> QED
      BY <3>1, <3>2 DEF Shows
  <2>2. CASE vs # {}
    <3>1. OpenRows(vs) # {}
      BY <1>2, <2>2 DEF Ahead
    <3>2. /\ OverlayPayload(ws, x) = OverlayPayload(vs, x)
          /\ (\E v \in ws : Covers(v, x)) <=> (\E v \in vs : Covers(v, x))
      BY <1>3, <3>1, WriteVersionKeepsPast
    <3>3. \E v \in vs : Covers(v, x)
      BY <1>5, <2>2 DEF Ahead
    <3>4. OverlayPayload(vs, x) # {}
      <4> DEFINE covering == {v \in vs : Covers(v, x)}
      <4>1. covering \in SUBSET Version(Row) /\ covering # {} /\ IsFiniteSet(covering)
        BY <1>3, <3>3, FS_Subset
      <4>2. First(covering) # {}
        BY <4>1, FirstExists
      <4> QED
        BY <4>2 DEF OverlayPayload
    <3> QED
      BY <3>2, <3>3, <3>4 DEF Shows
  <2> QED
    BY <2>1, <2>2
<1> QED
  BY <1>4, <1>5

\* An edit for a year that is not before m leaves nothing written for a later year.
LEMMA EditKeepsAhead ==
  ASSUME NEW r \in Row \cup {NULL}, NEW vs, Told(r, vs), NEW m \in Years, r # NULL => Ahead(r, vs, m),
         NEW id \in Nat, NEW y \in Years, m <= y,
         NEW new \in Row, NEW type \in ChangeTypes, Edits(r, new, y, type)
  PROVE  Ahead(new, WriteVersion(vs, id, y, type, new, IF r # NULL THEN Shows(r, vs, y) ELSE new), y)
<1> DEFINE previous == IF r # NULL THEN Shows(r, vs, y) ELSE new
           ws == WriteVersion(vs, id, y, type, new, previous)
<1>1. /\ new.from <= y
      /\ new.abolished = IF type = "abolish" THEN y ELSE NULL
      /\ type # "abolish" => new.abolished = NULL
  <2>1. CASE r = NULL
    BY <2>1 DEF Edits, Years
  <2>2. CASE r # NULL
    <3>1. r.abolished = NULL
      BY <2>2, AheadShows DEF Edits
    <3>2. r.from <= m /\ r.from \in Years
      BY <2>2 DEF Ahead, Row
    <3> QED
      BY <2>2, <3>1, <3>2 DEF Edits, Years
  <2> QED
    BY <2>1, <2>2
<1>2. OpenRows(ws) = OpenFrom(id, y, type, new)
  BY WriteVersionOpen DEF Told
<1>3. ASSUME NEW v \in ws
      PROVE  v.from <= y /\ (IsOpen(v) \/ v.to < y)
  <2>1. ASSUME NEW w \in vs
        PROVE  w.from <= y /\ w.from \in Int /\ (IsOpen(w) \/ w.to < y)
    <3>1. r # NULL
      BY DEF Told
    <3>2. w.from <= m /\ (IsOpen(w) \/ w.to < m) /\ w.from \in Int /\ (IsOpen(w) \/ w.to \in Int)
      BY <3>1 DEF Ahead, Told, Version, Years, YearOrNull, IsOpen
    <3> QED
      BY <3>2 DEF Years
  <2>2. /\ v.from \in {MinYear, y} \/ \E w \in vs : v.from = w.from
        /\ IsOpen(v) \/ v \in vs \/ v.to = y - 1
    BY WriteVersionBounds DEF Told
  <2> QED
    BY <2>1, <2>2 DEF Years
<1>4. IF new.abolished = NULL THEN ws = {} \/ OpenRows(ws) # {} ELSE new.abolished <= y /\ OpenRows(ws) = {}
  <2>1. OpenFrom(id, y, type, new) = {} <=> type = "abolish"
    BY DEF OpenFrom
  <2>2. y # NULL /\ y <= y
    BY DEF Years
  <2> HIDE DEF ws
  <2> QED
    BY <1>1, <1>2, <2>1, <2>2
<1>5. ASSUME NEW x \in Years, ActiveAt(new.from, new.abolished, x)
      PROVE  \E v \in ws : Covers(v, x)
  <2>1. CASE y <= x
    <3>1. type # "abolish"
      BY <1>1, <1>5, <2>1 DEF ActiveAt, Years
    <3> DEFINE v == [id |-> id, from |-> y, to |-> NULL, type |-> type, payload |-> new]
    <3>2. v \in ws
      BY <3>1 DEF WriteVersion, OpenFrom
    <3>3. Covers(v, x)
      BY <2>1 DEF Covers, IsOpen
    <3> QED
      BY <3>2, <3>3
  <2>2. CASE x < y
    <3>1. r # NULL /\ previous = Shows(r, vs, y)
      BY <1>5, <2>2 DEF Edits, ActiveAt, Years
    <3> QED
      BY <1>5, <2>2, <3>1, EditKeepsYears
  <2> QED
    BY <2>1, <2>2 DEF Years
<1> HIDE DEF ws
<1> QED
  BY <1>1, <1>3, <1>4, <1>5 DEF Ahead, ws

-----------------------------------------------------------------------------
(* A request                                                               *)

\* The rows a node of each kind may have.
RowOf(n) == {r \in Row : r.up \in IF n \in Departments THEN Series
                                  ELSE IF n \in Offices THEN Groups \cup {NULL} ELSE {NULL}}

OrgTypes ==
  /\ row \in [OrgNodes -> Row \cup {NULL}] /\ \A n \in Kept : row[n] \in RowOf(n)
  /\ versions \in [OrgNodes -> SUBSET Version(Row)]
  /\ \A n \in OrgNodes : versions[n] \in SUBSET Version(RowOf(n)) /\ Told(row[n], versions[n])
  /\ \A e \in log : e.node \in Kept /\ e.year \in Years /\ e.before \in RowOf(e.node)
  /\ writes \in Nat /\ latest \in Years /\ forward \in BOOLEAN

\* The rows a request may commit: what an action makes of the nodes it writes.
Request(D, new, y, type, undo) ==
  /\ D \in SUBSET OrgNodes /\ y \in Years /\ undo \in BOOLEAN
  /\ new \in [D -> Row] /\ \A n \in D : new[n] \in RowOf(n)
  /\ type \in [D -> ChangeTypes]
  /\ \A n \in D : IF undo THEN row[n] # NULL ELSE Edits(row[n], new[n], y, type[n])

LEMMA ResolvedShows ==
  /\ \A n, y : Resolved(n, y) = Shows(row[n], versions[n], y)
  /\ \A n, y : Resolved(n, y)' = Shows(row'[n], versions'[n], y)
BY DEF Resolved, Shows

\* A node exists in year y, going by its live row.
ExistsIn(rows, n, y) ==
  n \in OrgNodes /\ y \in Years /\ rows[n] # NULL /\ ActiveAt(rows[n].from, rows[n].abolished, y)

LEMMA ExistsIs ==
  /\ \A n, y : Exists(n, y) <=> ExistsIn(row, n, y)
  /\ \A n, y : Exists(n, y)' <=> ExistsIn(row', n, y)
BY DEF Exists, Span, Kept, ExistsIn

LEMMA ResolvedRow ==
  ASSUME OrgTypes, NEW n \in Kept, NEW y
  PROVE  Resolved(n, y) \in RowOf(n)
<1>1. row[n] \in RowOf(n) /\ versions[n] \in SUBSET Version(RowOf(n))
  BY DEF OrgTypes, Kept
<1>2. OverlayPayload(versions[n], y) \subseteq RowOf(n)
  BY <1>1 DEF OverlayPayload, First, Version
<1> QED
  BY <1>1, <1>2 DEF Resolved

\* What Commit leaves of each node.
LEMMA CommitWrites ==
  ASSUME OrgTypes, NEW D, NEW new, NEW y, NEW type, NEW undo,
         Request(D, new, y, type, undo), Commit(new, y, type, undo), NEW n \in OrgNodes
  PROVE  /\ n \in D =>
              /\ row'[n] = new[n] /\ new[n] \in Row /\ type[n] \in ChangeTypes
              /\ versions'[n] = WriteVersion(versions[n], writes + 1, y, type[n], new[n],
                                             IF row[n] # NULL THEN Shows(row[n], versions[n], y) ELSE new[n])
         /\ n \notin D => row'[n] = row[n] /\ versions'[n] = versions[n]
<1>1. DOMAIN new = D /\ (n \in D => new[n] \in Row /\ type[n] \in ChangeTypes)
  BY DEF Request
<1>2. Resolved(n, y) = Shows(row[n], versions[n], y)
  BY ResolvedShows
<1> QED
  BY <1>1, <1>2 DEF Commit, Kept

LEMMA CommitTypes ==
  ASSUME OrgTypes, NEW D, NEW new, NEW y, NEW type, NEW undo,
         Request(D, new, y, type, undo), Commit(new, y, type, undo)
  PROVE  OrgTypes'
<1>1. \A n \in OrgNodes : Told(row[n], versions[n]) /\ versions[n] \in SUBSET Version(RowOf(n))
                          /\ row[n] \in Row \cup {NULL}
  BY DEF OrgTypes
<1>2. y \in Years /\ undo \in BOOLEAN /\ DOMAIN new = D /\ writes + 1 \in Nat
      /\ D \in SUBSET OrgNodes /\ \A n \in D : new[n] \in RowOf(n)
  BY DEF Request, OrgTypes
<1>3. ASSUME NEW n \in OrgNodes
      PROVE  /\ row'[n] \in Row \cup {NULL}
             /\ row'[n] # NULL => row'[n] \in RowOf(n)
             /\ row[n] # NULL => row'[n] # NULL
             /\ versions'[n] \in SUBSET Version(RowOf(n)) /\ versions'[n] \in SUBSET Version(Row)
             /\ Told(row'[n], versions'[n])
  <2>1. CASE n \notin D
    BY <2>1, CommitWrites DEF OrgTypes, Kept
  <2>2. CASE n \in D
    <3> DEFINE previous == IF row[n] # NULL THEN Shows(row[n], versions[n], y) ELSE new[n]
    <3>1. /\ row'[n] = new[n] /\ new[n] \in Row /\ type[n] \in ChangeTypes
          /\ versions'[n] = WriteVersion(versions[n], writes + 1, y, type[n], new[n], previous)
      BY <2>2, CommitWrites
    <3>2. new[n] \in RowOf(n) /\ new[n] # NULL
      BY <1>2, <2>2, <3>1
    <3>3. previous \in RowOf(n)
      BY <3>2, ResolvedRow, ResolvedShows DEF Kept
    <3>4. previous \in Row
      BY <3>3 DEF RowOf
    <3> HIDE DEF previous
    <3>5. Told(row'[n], versions'[n])
      BY <1>1, <1>2, <3>1, <3>4, WriteTold
    <3>6. versions'[n] \in SUBSET Version(RowOf(n))
      BY <1>1, <1>2, <3>1, <3>2, <3>3, WriteVersionType
    <3> QED
      BY <3>1, <3>2, <3>5, <3>6 DEF Told
  <2> QED
    BY <2>1, <2>2
<1>4. ASSUME NEW e \in log'
      PROVE  e.node \in OrgNodes /\ row[e.node] # NULL /\ e.year \in Years /\ e.before \in RowOf(e.node)
  <2>1. CASE e \in log
    BY <2>1 DEF OrgTypes, Kept
  <2>2. CASE \E n \in D \cap Kept : e = [node |-> n, year |-> y, before |-> IF undo THEN row[n] ELSE Resolved(n, y)]
    BY <1>2, <2>2, ResolvedRow DEF Kept, OrgTypes
  <2> QED
    BY <1>2, <1>4, <2>1, <2>2 DEF Commit
<1>5. row' \in [OrgNodes -> Row \cup {NULL}] /\ versions' \in [OrgNodes -> SUBSET Version(Row)]
  BY <1>3 DEF Commit
<1>6. writes' \in Nat /\ latest' \in Years /\ forward' \in BOOLEAN
  BY <1>2 DEF Commit, OrgTypes
<1> QED
  BY <1>3, <1>4, <1>5, <1>6 DEF OrgTypes, Kept

-----------------------------------------------------------------------------
(* Forward through the years                                               *)

Alive == {n \in Kept : row[n].abolished = NULL}

\* Of the live rows that are not abolished a child hangs from one that is not either.
Upheld(rows) ==
  /\ rows[Uncategorized] # NULL /\ rows[Uncategorized].abolished = NULL
  /\ \A n \in Departments \cup Offices :
       rows[n] # NULL /\ rows[n].abolished = NULL /\ rows[n].up # NULL =>
         rows[rows[n].up] # NULL /\ rows[rows[n].up].abolished = NULL

\* In the tree of every year a child that has a head has one of that year.
Headed(rows, vss) ==
  \A n \in Departments \cup Offices, y \in Years :
    LET up == Shows(rows[n], vss[n], y).up
    IN ExistsIn(rows, n, y) /\ up # NULL => ExistsIn(rows, up, y)

NothingLater == \A n \in Kept : Ahead(row[n], versions[n], latest)

ForwardInv ==
  /\ NothingLater
  /\ Upheld(row)
  /\ Headed(row, versions)

OrgInv == OrgTypes /\ (forward => ForwardInv)

\* A step that is not backdated leaves the years before it as they were.
PastStays ==
  forward' => \A n \in Kept, x \in Years :
    x < latest' => /\ Exists(n, x)' <=> Exists(n, x)
                   /\ Exists(n, x) => Resolved(n, x)' = Resolved(n, x)

LEMMA CommitKeepsPast ==
  ASSUME OrgInv, NEW D, NEW new, NEW y, NEW type, NEW undo,
         Request(D, new, y, type, undo), Commit(new, y, type, undo), forward'
  PROVE  /\ \A n \in OrgNodes : row'[n] # NULL => Ahead(row'[n], versions'[n], y)
         /\ \A n \in Kept, x \in Years :
              x < y => /\ ExistsIn(row', n, x) <=> ExistsIn(row, n, x)
                       /\ ExistsIn(row, n, x) => Shows(row'[n], versions'[n], x) = Shows(row[n], versions[n], x)
         /\ \A n \in OrgNodes \ Kept, x \in Years : x < y => ~ExistsIn(row', n, x)
<1>1. forward /\ undo = FALSE /\ latest \in Years /\ y \in Years /\ latest <= y /\ writes + 1 \in Nat
  <2>1. forward /\ ~undo /\ y >= latest
    BY Zenon DEF Commit
  <2>2. undo \in BOOLEAN /\ y \in Years /\ latest \in Years /\ writes \in Nat
    BY DEF Request, OrgInv, OrgTypes
  <2> QED
    BY <2>1, <2>2 DEF Years
<1>2. ASSUME NEW n \in OrgNodes
      PROVE  /\ row[n] \in Row \cup {NULL} /\ Told(row[n], versions[n])
             /\ row[n] # NULL => Ahead(row[n], versions[n], latest)
             /\ n \in D => Edits(row[n], new[n], y, type[n])
  BY <1>1 DEF OrgInv, OrgTypes, ForwardInv, NothingLater, Kept, Request
<1>3. ASSUME NEW n \in OrgNodes, row'[n] # NULL
      PROVE  Ahead(row'[n], versions'[n], y)
  <2>1. CASE n \notin D
    BY <1>1, <1>2, <1>3, <2>1, CommitWrites, AheadLater DEF OrgInv
  <2>2. CASE n \in D
    <3>1. /\ row'[n] = new[n] /\ new[n] \in Row /\ type[n] \in ChangeTypes
          /\ versions'[n] = WriteVersion(versions[n], writes + 1, y, type[n], new[n],
                                         IF row[n] # NULL THEN Shows(row[n], versions[n], y) ELSE new[n])
      BY <2>2, CommitWrites DEF OrgInv
    <3>2. Ahead(new[n], WriteVersion(versions[n], writes + 1, y, type[n], new[n],
                          IF row[n] # NULL THEN Shows(row[n], versions[n], y) ELSE new[n]), y)
      BY <1>1, <1>2, <2>2, <3>1, EditKeepsAhead
    <3> QED
      BY <3>1, <3>2
  <2> QED
    BY <2>1, <2>2
<1>4. ASSUME NEW n \in Kept, NEW x \in Years, x < y
      PROVE  /\ ExistsIn(row', n, x) <=> ExistsIn(row, n, x)
             /\ ExistsIn(row, n, x) => Shows(row'[n], versions'[n], x) = Shows(row[n], versions[n], x)
  <2>1. n \in OrgNodes /\ row[n] # NULL /\ row[n] \in Row
    BY <1>2 DEF Kept
  <2>2. CASE n \notin D
    BY <2>1, <2>2, CommitWrites DEF OrgInv, ExistsIn
  <2>3. CASE n \in D
    <3>1. /\ row'[n] = new[n] /\ new[n] \in Row /\ type[n] \in ChangeTypes /\ new[n] # NULL
          /\ versions'[n] = WriteVersion(versions[n], writes + 1, y, type[n], new[n],
                                         Shows(row[n], versions[n], y))
      BY <2>1, <2>3, CommitWrites DEF OrgInv
    <3>2. /\ ActiveAt(row'[n].from, row'[n].abolished, x) <=> ActiveAt(row[n].from, row[n].abolished, x)
          /\ ActiveAt(row[n].from, row[n].abolished, x) =>
               Shows(row'[n], versions'[n], x) = Shows(row[n], versions[n], x)
      BY <1>1, <1>2, <1>4, <2>1, <2>3, <3>1, EditKeepsYears
    <3> QED
      BY <2>1, <3>1, <3>2 DEF ExistsIn
  <2> QED
    BY <2>2, <2>3
<1>5. ASSUME NEW n \in OrgNodes \ Kept, NEW x \in Years, x < y
      PROVE  ~ExistsIn(row', n, x)
  <2>1. row[n] = NULL
    BY DEF Kept
  <2>2. CASE n \notin D
    BY <2>1, <2>2, CommitWrites DEF OrgInv, ExistsIn
  <2>3. CASE n \in D
    <3>1. row'[n].from = y
      BY <1>2, <2>1, <2>3, CommitWrites DEF Edits, OrgInv
    <3> QED
      BY <1>1, <1>5, <3>1 DEF ActiveAt, Years, ExistsIn
  <2> QED
    BY <2>2, <2>3
<1> QED
  BY <1>3, <1>4, <1>5

\* From the latest year on the live rows are the tree.
LiveTree ==
  \A n \in OrgNodes, x \in Years :
    latest <= x => /\ ExistsIn(row, n, x) <=> n \in Alive
                   /\ n \in Alive => Shows(row[n], versions[n], x) = row[n]

LEMMA LatestTree == OrgTypes /\ NothingLater => LiveTree
<1> SUFFICES ASSUME OrgTypes, NothingLater, NEW n \in OrgNodes, NEW x \in Years, latest <= x
             PROVE  /\ ExistsIn(row, n, x) <=> n \in Alive
                    /\ n \in Alive => Shows(row[n], versions[n], x) = row[n]
  BY DEF LiveTree
<1>1. CASE n \notin Kept
  BY <1>1 DEF Kept, Alive, ExistsIn
<1>2. CASE n \in Kept
  <2>1. Ahead(row[n], versions[n], latest) /\ row[n] \in Row /\ row[n] # NULL /\ Told(row[n], versions[n]) /\ latest \in Years
    BY <1>2 DEF OrgTypes, NothingLater, Kept
  <2> QED
    BY <1>2, <2>1, AheadShows DEF Alive, ExistsIn
<1> QED
  BY <1>1, <1>2

LEMMA CommitHeaded ==
  ASSUME OrgInv, NEW D, NEW new, NEW y, NEW type, NEW undo,
         Request(D, new, y, type, undo), Commit(new, y, type, undo),
         forward /\ latest <= y /\ ~undo => Upheld(row')
  PROVE  OrgInv' /\ PastStays
<1>1. OrgTypes' /\ latest' = y /\ y \in Years
  BY CommitTypes DEF OrgInv, Request, Commit
<1>2. PastStays
  BY <1>1, CommitKeepsPast, ExistsIs, ResolvedShows DEF PastStays
<1>3. ASSUME forward'
      PROVE  ForwardInv'
  <2>1. forward /\ latest <= y /\ ~undo /\ Upheld(row')
    BY <1>3 DEF Commit
  <2>2. NothingLater'
    BY <1>1, <1>3, CommitKeepsPast DEF NothingLater, Kept
  <2>3. LiveTree'
    <3>1. OrgTypes' /\ NothingLater' => LiveTree'
      BY LatestTree, PTL
    <3> QED
      BY <1>1, <2>2, <3>1
  <2>4. ASSUME NEW n \in Departments \cup Offices, NEW x \in Years,
               ExistsIn(row', n, x), Shows(row'[n], versions'[n], x).up # NULL
        PROVE  ExistsIn(row', Shows(row'[n], versions'[n], x).up, x)
    <3>1. n \in OrgNodes
      BY DEF OrgNodes
    <3>2. CASE x < y
      <4>1. n \in Kept
        BY <1>3, <2>4, <3>1, <3>2, CommitKeepsPast
      <4>2. ExistsIn(row, n, x) /\ Shows(row'[n], versions'[n], x) = Shows(row[n], versions[n], x)
        BY <1>3, <2>4, <3>2, <4>1, CommitKeepsPast
      <4>3. ExistsIn(row, Shows(row[n], versions[n], x).up, x)
        BY <2>1, <2>4, <4>2 DEF OrgInv, ForwardInv, Headed
      <4>4. Shows(row[n], versions[n], x).up \in Kept
        BY <4>3 DEF Kept, ExistsIn
      <4> QED
        BY <1>3, <3>2, <4>2, <4>3, <4>4, CommitKeepsPast
    <3>3. CASE y <= x
      <4>1. n \in Alive' /\ Shows(row'[n], versions'[n], x) = row'[n]
        BY <1>1, <2>3, <2>4, <3>1, <3>3 DEF LiveTree
      <4>2. row'[n].up \in OrgNodes
        BY <1>1, <2>4, <4>1 DEF OrgTypes, Alive, Kept, Row, RowOf, OrgNodes, Heads
      <4>3. row'[n].up \in Alive'
        BY <2>1, <2>4, <4>1, <4>2 DEF Upheld, Alive, Kept
      <4> QED
        BY <1>1, <2>3, <3>3, <4>1, <4>2, <4>3 DEF LiveTree
    <3> QED
      BY <1>1, <3>2, <3>3 DEF Years
  <2> QED
    BY <2>1, <2>2, <2>4 DEF ForwardInv, Headed
<1> QED
  BY <1>1, <1>2, <1>3 DEF OrgInv

-----------------------------------------------------------------------------
(* Each action is a request                                                *)

LEMMA KindsApart ==
  /\ Uncategorized \in Series /\ Uncategorized \in OrgNodes
  /\ Series \subseteq Heads /\ Groups \subseteq Heads /\ Heads \subseteq OrgNodes
  /\ Departments \subseteq OrgNodes /\ Offices \subseteq OrgNodes /\ NULL \notin OrgNodes
  /\ \A n \in Departments \cup Offices : n \notin Heads
  /\ \A n \in Offices : n \notin Departments
  /\ \A n \in Series : n \notin Groups
BY DEF Heads, OrgNodes

\* With no backdated request the nodes of year y are the live ones.
LEMMA ForwardTree ==
  ASSUME OrgInv, forward, NEW y \in Years, latest <= y, NEW n \in OrgNodes
  PROVE  /\ Exists(n, y) <=> n \in Alive
         /\ n \in Alive => Resolved(n, y) = row[n]
BY LatestTree, ExistsIs, ResolvedShows DEF OrgInv, ForwardInv, LiveTree

\* The tree stands when one row is replaced: a new child hangs from a live head, and a
\* head goes only when nothing hangs from it.
Replaces(n, new) ==
  /\ n = Uncategorized => new.abolished = NULL
  /\ n \in Departments \cup Offices /\ new.abolished = NULL /\ new.up # NULL => new.up \in Alive
  /\ new.abolished # NULL => \A c \in Alive \cap (Departments \cup Offices) : row[c].up # n

LEMMA OneUpheld ==
  ASSUME OrgTypes, Upheld(row), NEW n \in OrgNodes, NEW new \in RowOf(n), Replaces(n, new)
  PROVE  Upheld([row EXCEPT ![n] = new])
<1> DEFINE rows == [row EXCEPT ![n] = new]
<1>1. row \in [OrgNodes -> Row \cup {NULL}] /\ new \in Row /\ new # NULL
  BY DEF OrgTypes, RowOf
<1>2. rows[n] = new /\ \A m \in OrgNodes : m # n => rows[m] = row[m]
  BY <1>1
<1> HIDE DEF rows
<1>3. rows[Uncategorized] # NULL /\ rows[Uncategorized].abolished = NULL
  BY <1>1, <1>2, KindsApart DEF Upheld, Replaces
<1>4. ASSUME NEW m \in Departments \cup Offices,
             rows[m] # NULL, rows[m].abolished = NULL, rows[m].up # NULL
      PROVE  rows[rows[m].up] # NULL /\ rows[rows[m].up].abolished = NULL
  <2>1. m \in OrgNodes
    BY KindsApart
  <2>2. CASE m = n
    <3>1. new.up \in Alive
      BY <1>2, <1>4, <2>2 DEF Replaces
    <3>2. new.up \in Heads
      BY <1>2, <1>4, <2>2, KindsApart DEF RowOf
    <3> QED
      BY <1>2, <2>2, <3>1, <3>2, KindsApart DEF Alive, Kept
  <2>3. CASE m # n
    <3>1. row[m] = rows[m] /\ m \in Alive
      BY <1>2, <1>4, <2>1, <2>3 DEF Alive, Kept
    <3>2. row[row[m].up] # NULL /\ row[row[m].up].abolished = NULL
      BY <1>4, <3>1 DEF Upheld
    <3>3. row[m].up \in OrgNodes
      BY <1>1, <1>4, <2>1, <3>1 DEF Row, OrgNodes
    <3>4. CASE row[m].up = n
      BY <1>1, <1>2, <3>1, <3>4 DEF Replaces
    <3>5. CASE row[m].up # n
      BY <1>2, <3>1, <3>2, <3>3, <3>5
    <3> QED
      BY <3>4, <3>5
  <2> QED
    BY <2>2, <2>3
<1> QED
  BY <1>3, <1>4 DEF Upheld, rows

\* A request that writes one node.
LEMMA OneStep ==
  ASSUME OrgInv, NEW n \in OrgNodes, NEW new \in RowOf(n), NEW y \in Years, NEW type \in ChangeTypes,
         Edits(row[n], new, y, type), CommitOne(n, new, y, type),
         forward /\ latest <= y => Replaces(n, new)
  PROVE  OrgInv' /\ PastStays
<1> DEFINE news == [m \in {n} |-> new]
           types == [m \in {n} |-> type]
<1>1. /\ news \in [{n} -> Row] /\ news[n] = new /\ types \in [{n} -> ChangeTypes] /\ types[n] = type
      /\ DOMAIN news = {n}
  BY DEF RowOf
<1>2. Commit(news, y, types, FALSE)
  BY DEF CommitOne
<1> HIDE DEF news, types
<1>3. Request({n}, news, y, types, FALSE)
  BY <1>1 DEF Request
<1>4. row' = [row EXCEPT ![n] = new]
  BY <1>1, <1>2 DEF Commit, OrgInv, OrgTypes
<1>5. forward /\ latest <= y => Upheld(row')
  BY <1>4, OneUpheld DEF OrgInv, ForwardInv
<1> QED
  BY <1>2, <1>3, <1>5, CommitHeaded

LEMMA NewRowIs ==
  ASSUME NEW name \in Names, NEW up \in Heads \cup {NULL}, NEW y \in Years
  PROVE  /\ NewRow(name, up, y) \in Row /\ NewRow(name, up, y).up = up
         /\ NewRow(name, up, y).from = y /\ NewRow(name, up, y).abolished = NULL
BY DEF NewRow, Row, YearOrNull

LEMMA RowAt ==
  ASSUME OrgInv, NEW n, NEW y, Exists(n, y)
  PROVE  /\ n \in OrgNodes /\ row[n] # NULL /\ row[n] \in RowOf(n) /\ row[n] \in Row
         /\ ActiveAt(row[n].from, row[n].abolished, y)
BY ExistsIs DEF OrgInv, OrgTypes, ExistsIn, Kept, RowOf

LEMMA CreateSeriesStep ==
  ASSUME OrgInv, NEW s, NEW name \in Names, NEW y \in Years, CreateSeries(s, name, y)
  PROVE  OrgInv' /\ PastStays
<1> DEFINE new == NewRow(name, NULL, y)
<1>1. s \in Series /\ s \notin Kept /\ CommitOne(s, new, y, "create")
  BY DEF CreateSeries
<1>2. s \in OrgNodes /\ row[s] = NULL /\ s \notin Departments \cup Offices
  BY <1>1, KindsApart DEF Kept
<1>3. new \in Row /\ new.up = NULL /\ new.from = y /\ new.abolished = NULL
  BY NewRowIs
<1> HIDE DEF new
<1>4. new \in RowOf(s) /\ Edits(row[s], new, y, "create") /\ Replaces(s, new) /\ "create" \in ChangeTypes
  BY <1>2, <1>3 DEF RowOf, Edits, Replaces, ChangeTypes
<1> QED
  BY <1>1, <1>2, <1>4, OneStep

LEMMA UpdateSeriesStep ==
  ASSUME OrgInv, NEW s, NEW name \in Names, NEW y \in Years, UpdateSeries(s, name, y)
  PROVE  OrgInv' /\ PastStays
<1> DEFINE new == [row[s] EXCEPT !.name = name]
<1>1. s \in Series /\ s # Uncategorized /\ Exists(s, y) /\ CommitOne(s, new, y, "update")
  BY DEF UpdateSeries
<1>2. /\ s \in OrgNodes /\ s \notin Departments \cup Offices
      /\ row[s] # NULL /\ row[s] \in RowOf(s) /\ row[s] \in Row
      /\ ActiveAt(row[s].from, row[s].abolished, y)
  BY <1>1, RowAt, KindsApart
<1>3. /\ new \in Row /\ new.up = row[s].up /\ new.from = row[s].from
      /\ new.abolished = row[s].abolished
  BY <1>2 DEF Row
<1> HIDE DEF new
<1>4. new \in RowOf(s) /\ Edits(row[s], new, y, "update") /\ "update" \in ChangeTypes
  BY <1>2, <1>3 DEF RowOf, Edits, ChangeTypes
<1>5. forward /\ latest <= y => Replaces(s, new)
  BY <1>1, <1>2, <1>3, ForwardTree DEF Replaces, Alive
<1> QED
  BY <1>1, <1>2, <1>4, <1>5, OneStep

LEMMA CreateDepartmentStep ==
  ASSUME OrgInv, NEW d, NEW s, NEW name \in Names, NEW y \in Years, CreateDepartment(d, s, name, y)
  PROVE  OrgInv' /\ PastStays
<1> DEFINE new == NewRow(name, s, y)
<1>1. d \in Departments /\ d \notin Kept /\ s \in Series /\ Exists(s, y) /\ CommitOne(d, new, y, "create")
  BY DEF CreateDepartment
<1>2. d \in OrgNodes /\ row[d] = NULL /\ d # Uncategorized /\ s \in Heads /\ s \in OrgNodes
  BY <1>1, KindsApart DEF Kept
<1>3. new \in Row /\ new.up = s /\ new.from = y /\ new.abolished = NULL
  BY <1>2, NewRowIs
<1> HIDE DEF new
<1>4. new \in RowOf(d) /\ Edits(row[d], new, y, "create") /\ "create" \in ChangeTypes
  BY <1>1, <1>2, <1>3 DEF RowOf, Edits, ChangeTypes
<1>5. forward /\ latest <= y => Replaces(d, new)
  BY <1>1, <1>2, <1>3, ForwardTree DEF Replaces
<1> QED
  BY <1>1, <1>2, <1>4, <1>5, OneStep

\* A child that is moved to a live head, or stays under its own.
LEMMA MoveStep ==
  ASSUME OrgInv, NEW n \in OrgNodes, NEW new \in RowOf(n), NEW y \in Years, Exists(n, y),
         new.from = row[n].from, new.abolished = row[n].abolished,
         new.up # row[n].up /\ new.up # NULL => Exists(new.up, y),
         CommitOne(n, new, y, "update")
  PROVE  OrgInv' /\ PastStays
<1>1. row[n] # NULL /\ ActiveAt(row[n].from, row[n].abolished, y)
  BY RowAt
<1>2. Edits(row[n], new, y, "update") /\ "update" \in ChangeTypes
  BY <1>1 DEF Edits, ChangeTypes
<1>3. ASSUME forward, latest <= y
      PROVE  Replaces(n, new)
  <2>1. n \in Alive /\ row[n].abolished = NULL
    BY <1>3, ForwardTree DEF Alive
  <2>2. ASSUME n \in Departments \cup Offices, new.up # NULL
        PROVE  new.up \in Alive
    <3>1. new.up \in OrgNodes
      BY <2>2 DEF RowOf, Row, OrgNodes
    <3>2. CASE new.up = row[n].up
      BY <1>1, <1>3, <2>1, <2>2, <3>1, <3>2 DEF OrgInv, ForwardInv, Upheld, Alive, Kept
    <3>3. CASE new.up # row[n].up
      BY <1>3, <2>2, <3>1, <3>3, ForwardTree
    <3> QED
      BY <3>2, <3>3
  <2> QED
    BY <2>1, <2>2 DEF Replaces
<1> QED
  BY <1>2, <1>3, OneStep

LEMMA UpdateDepartmentStep ==
  ASSUME OrgInv, NEW d, NEW s, NEW name \in Names, NEW y \in Years, UpdateDepartment(d, s, name, y)
  PROVE  OrgInv' /\ PastStays
<1> DEFINE new == [row[d] EXCEPT !.up = s, !.name = name]
<1>1. /\ d \in Departments /\ Exists(d, y) /\ s \in Series /\ (s # row[d].up => Exists(s, y))
      /\ CommitOne(d, new, y, "update")
  BY DEF UpdateDepartment, MayMove
<1>2. d \in OrgNodes /\ row[d] \in Row /\ s \in Heads
  BY <1>1, RowAt, KindsApart
<1>3. new \in Row /\ new.up = s /\ new.from = row[d].from /\ new.abolished = row[d].abolished
  BY <1>2 DEF Row
<1> HIDE DEF new
<1>4. new \in RowOf(d)
  BY <1>1, <1>3 DEF RowOf
<1> QED
  BY <1>1, <1>2, <1>3, <1>4, MoveStep

LEMMA UpdateOfficeStep ==
  ASSUME OrgInv, NEW o, NEW g \in Groups \cup {NULL}, NEW name \in Names, NEW y \in Years,
         UpdateOffice(o, g, name, y)
  PROVE  OrgInv' /\ PastStays
<1> DEFINE new == [row[o] EXCEPT !.name = name, !.up = g]
<1>1. /\ o \in Groups \cup Offices /\ Exists(o, y) /\ (o \in Groups => g = NULL)
      /\ (g # row[o].up => GroupOk(g, y))
      /\ CommitOne(o, new, y, "update")
  BY DEF UpdateOffice
<1>2. o \in OrgNodes /\ row[o] \in Row /\ g \in Heads \cup {NULL}
  BY <1>1, RowAt, KindsApart
<1>3. new \in Row /\ new.up = g /\ new.from = row[o].from /\ new.abolished = row[o].abolished
  BY <1>2 DEF Row
<1> HIDE DEF new
<1>4. new \in RowOf(o)
  BY <1>1, <1>3, KindsApart DEF RowOf
<1> QED
  BY <1>1, <1>2, <1>3, <1>4, MoveStep DEF GroupOk

LEMMA CreateOfficeStep ==
  ASSUME OrgInv, NEW o, NEW g \in Groups \cup {NULL}, NEW name \in Names, NEW y \in Years,
         CreateOffice(o, g, name, y)
  PROVE  OrgInv' /\ PastStays
<1> DEFINE new == NewRow(name, g, y)
<1>1. /\ o \in Groups \cup Offices /\ o \notin Kept /\ (o \in Groups => g = NULL) /\ GroupOk(g, y)
      /\ CommitOne(o, new, y, "create")
  BY DEF CreateOffice
<1>2. o \in OrgNodes /\ row[o] = NULL /\ o # Uncategorized /\ g \in Heads \cup {NULL}
      /\ (g # NULL => g \in OrgNodes)
  BY <1>1, KindsApart DEF Kept
<1>3. new \in Row /\ new.up = g /\ new.from = y /\ new.abolished = NULL
  BY <1>2, NewRowIs
<1> HIDE DEF new
<1>4. new \in RowOf(o) /\ Edits(row[o], new, y, "create") /\ "create" \in ChangeTypes
  BY <1>1, <1>2, <1>3, KindsApart DEF RowOf, Edits, ChangeTypes
<1>5. forward /\ latest <= y => Replaces(o, new)
  BY <1>1, <1>2, <1>3, ForwardTree DEF Replaces, GroupOk
<1> QED
  BY <1>1, <1>2, <1>4, <1>5, OneStep

\* A node goes that nothing hangs from.
LEMMA AbolishStep ==
  ASSUME OrgInv, NEW n \in OrgNodes \ {Uncategorized}, NEW y \in Years, Exists(n, y),
         CommitOne(n, [row[n] EXCEPT !.abolished = y], y, "abolish"),
         forward /\ latest <= y => \A c \in Alive \cap (Departments \cup Offices) : row[c].up # n
  PROVE  OrgInv' /\ PastStays
<1> DEFINE new == [row[n] EXCEPT !.abolished = y]
<1>1. /\ row[n] # NULL /\ row[n] \in RowOf(n) /\ row[n] \in Row
      /\ ActiveAt(row[n].from, row[n].abolished, y)
  BY RowAt
<1>2. new \in Row /\ new.up = row[n].up /\ new.from = row[n].from /\ new.abolished = y /\ y # NULL
  BY <1>1 DEF Row, YearOrNull, Years
<1>3. CommitOne(n, new, y, "abolish")
  OBVIOUS
<1> HIDE DEF new
<1>4. new \in RowOf(n) /\ Edits(row[n], new, y, "abolish") /\ "abolish" \in ChangeTypes
  BY <1>1, <1>2 DEF RowOf, Edits, ChangeTypes
<1>5. forward /\ latest <= y => Replaces(n, new)
  BY <1>2 DEF Replaces
<1> QED
  BY <1>3, <1>4, <1>5, OneStep

LEMMA UpsAreHeads ==
  ASSUME OrgTypes, NEW c \in Kept
  PROVE  row[c].up \in Heads \cup {NULL}
BY DEF OrgTypes, RowOf, Row

LEMMA AbolishDepartmentStep ==
  ASSUME OrgInv, NEW d, NEW y \in Years, AbolishDepartment(d, y)
  PROVE  OrgInv' /\ PastStays
<1>1. d \in Departments /\ Exists(d, y) /\ CommitOne(d, [row[d] EXCEPT !.abolished = y], y, "abolish")
  BY DEF AbolishDepartment
<1>2. d \in OrgNodes \ {Uncategorized} /\ d \notin Heads \cup {NULL}
  BY <1>1, KindsApart
<1>3. \A c \in Alive : row[c].up # d
  BY <1>2, UpsAreHeads DEF Alive, OrgInv
<1> QED
  BY <1>1, <1>2, <1>3, AbolishStep

LEMMA AbolishOfficeStep ==
  ASSUME OrgInv, NEW o, NEW y \in Years, AbolishOffice(o, y)
  PROVE  OrgInv' /\ PastStays
<1>1. /\ o \in Groups \cup Offices /\ Exists(o, y) /\ (o \in Groups => ChildrenAt(o, y) = {})
      /\ CommitOne(o, [row[o] EXCEPT !.abolished = y], y, "abolish")
  BY DEF AbolishOffice
<1>2. o \in OrgNodes \ {Uncategorized}
  BY <1>1, KindsApart
<1>3. ASSUME forward, latest <= y, NEW c \in Alive, c \in Departments \cup Offices
      PROVE  row[c].up # o
  <2>1. CASE o \in Groups
    <3>1. c \in OrgNodes /\ Exists(c, y) /\ Resolved(c, y) = row[c]
      BY <1>3, ForwardTree DEF Alive, Kept
    <3> QED
      BY <1>1, <1>3, <2>1, <3>1 DEF ChildrenAt
  <2>2. CASE o \in Offices
    BY <2>2, UpsAreHeads, KindsApart DEF Alive, OrgInv
  <2> QED
    BY <1>1, <2>1, <2>2
<1> QED
  BY <1>1, <1>2, <1>3, AbolishStep

LEMMA ReorderStep ==
  ASSUME OrgInv, NEW D \in SUBSET Departments, NEW to \in [D -> Series], NEW y \in Years, Reorder(to, y)
  PROVE  OrgInv' /\ PastStays
<1> DEFINE new == [d \in D |-> [row[d] EXCEPT !.up = to[d]]]
           type == [d \in D |-> "update"]
<1>1. /\ Commit(new, y, type, FALSE)
      /\ \A d \in D : /\ Exists(d, y) /\ to[d] \in Series
                      /\ to[d] # row[d].up => Exists(to[d], y)
  BY DEF Reorder, MayMove
<1>2. ASSUME NEW d \in D
      PROVE  /\ new[d] \in Row /\ new[d].up = to[d] /\ new[d] \in RowOf(d)
             /\ Edits(row[d], new[d], y, type[d])
             /\ new[d].abolished = row[d].abolished
  <2>1. /\ row[d] # NULL /\ row[d] \in Row /\ ActiveAt(row[d].from, row[d].abolished, y)
        /\ to[d] \in Heads
    BY <1>1, RowAt, KindsApart
  <2>2. /\ new[d] \in Row /\ new[d].up = to[d] /\ new[d].from = row[d].from
        /\ new[d].abolished = row[d].abolished /\ type[d] = "update"
    BY <2>1 DEF Row
  <2> HIDE DEF new, type
  <2> QED
    BY <1>1, <2>1, <2>2 DEF RowOf, Edits
<1>3. /\ DOMAIN new = D /\ new \in [D -> Row] /\ type \in [D -> ChangeTypes] /\ D \in SUBSET OrgNodes
  <2>1. \A d \in D : [row[d] EXCEPT !.up = to[d]] \in Row
    BY <1>2
  <2> QED
    BY <2>1, KindsApart DEF ChangeTypes
<1> HIDE DEF new, type
<1>4. Request(D, new, y, type, FALSE)
  BY <1>2, <1>3 DEF Request
<1>5. ASSUME forward, latest <= y
      PROVE  Upheld(row')
  <2>1. \A n \in OrgNodes : row'[n] = IF n \in D THEN new[n] ELSE row[n]
    BY <1>1, <1>3 DEF Commit
  <2>2. OrgTypes /\ Upheld(row)
    BY <1>5 DEF OrgInv, ForwardInv
  <2>3. \A h \in Heads : h \in OrgNodes /\ row'[h] = row[h]
    BY <2>1, KindsApart
  <2>4. ASSUME NEW n \in Departments \cup Offices,
               row'[n] # NULL, row'[n].abolished = NULL, row'[n].up # NULL
        PROVE  row'[row'[n].up] # NULL /\ row'[row'[n].up].abolished = NULL
    <3>1. n \in OrgNodes
      BY KindsApart
    <3>2. CASE n \in D /\ to[n] # row[n].up
      <4>1. to[n] \in Alive /\ to[n] \in Heads /\ row'[n].up = to[n]
        BY <1>1, <1>2, <1>5, <2>1, <3>1, <3>2, ForwardTree, KindsApart
      <4> QED
        BY <2>3, <4>1 DEF Alive, Kept
    <3>3. CASE n \notin D \/ to[n] = row[n].up
      <4>1. /\ row'[n].up = row[n].up /\ row[n] # NULL /\ row[n].abolished = NULL
        BY <1>1, <1>2, <2>1, <2>4, <3>1, <3>3, RowAt
      <4>2. row[n].up \in Heads
        BY <2>2, <2>4, <3>1, <4>1, UpsAreHeads DEF Kept
      <4> QED
        BY <2>2, <2>3, <2>4, <4>1, <4>2 DEF Upheld
    <3> QED
      BY <3>2, <3>3
  <2> QED
    BY <2>2, <2>3, <2>4, KindsApart DEF Upheld
<1> QED
  BY <1>1, <1>4, <1>5, CommitHeaded

LEMMA AbolishSeriesStep ==
  ASSUME OrgInv, NEW s, NEW y \in Years, AbolishSeries(s, y)
  PROVE  OrgInv' /\ PastStays
<1> DEFINE moved == ChildrenAt(s, y)
           D == moved \cup {s}
           new == [n \in D |-> IF n = s THEN [row[s] EXCEPT !.abolished = y]
                               ELSE [row[n] EXCEPT !.up = Uncategorized]]
           type == [n \in D |-> IF n = s THEN "abolish" ELSE "update"]
<1>1. Commit(new, y, type, FALSE) /\ s \in Series /\ s # Uncategorized /\ Exists(s, y)
  BY DEF AbolishSeries
<1>2. s \in OrgNodes /\ s \in Heads /\ moved \subseteq OrgNodes /\ s \notin moved
  BY <1>1, KindsApart DEF ChildrenAt
<1>3. \A n \in moved : Exists(n, y) /\ n \in Departments
  <2> SUFFICES ASSUME NEW n \in moved PROVE Exists(n, y) /\ n \in Departments
    OBVIOUS
  <2>1. n \in Departments \cup Offices /\ Exists(n, y) /\ Resolved(n, y).up = s /\ n \in Kept
    BY <1>2, RowAt DEF ChildrenAt, Kept
  <2>2. Resolved(n, y) \in RowOf(n)
    BY <2>1, ResolvedRow DEF OrgInv
  <2> QED
    BY <1>1, <1>2, <2>1, <2>2, KindsApart DEF RowOf
<1>4. /\ new[s] \in Row /\ new[s] \in RowOf(s) /\ new[s].abolished = y /\ y # NULL
      /\ Edits(row[s], new[s], y, type[s])
  <2>1. /\ row[s] # NULL /\ row[s] \in Row /\ row[s] \in RowOf(s)
        /\ ActiveAt(row[s].from, row[s].abolished, y)
    BY <1>1, RowAt
  <2>2. /\ new[s] \in Row /\ new[s].up = row[s].up /\ new[s].from = row[s].from
        /\ new[s].abolished = y /\ y # NULL /\ type[s] = "abolish"
    BY <2>1 DEF Row, YearOrNull, Years
  <2> HIDE DEF new, type
  <2> QED
    BY <2>1, <2>2 DEF RowOf, Edits
<1>5. ASSUME NEW n \in moved
      PROVE  /\ new[n] \in Row /\ new[n] \in RowOf(n) /\ new[n].up = Uncategorized
             /\ new[n].abolished = row[n].abolished
             /\ Edits(row[n], new[n], y, type[n])
  <2>1. /\ row[n] # NULL /\ row[n] \in Row /\ n \in Departments /\ n # s
        /\ ActiveAt(row[n].from, row[n].abolished, y)
        /\ Uncategorized \in Heads /\ Uncategorized \in Series
    BY <1>2, <1>3, RowAt, KindsApart
  <2>2. /\ new[n] \in Row /\ new[n].up = Uncategorized /\ new[n].from = row[n].from
        /\ new[n].abolished = row[n].abolished /\ type[n] = "update"
    BY <2>1 DEF Row
  <2> HIDE DEF new, type
  <2> QED
    BY <2>1, <2>2 DEF RowOf, Edits
<1>6. DOMAIN new = D /\ new \in [D -> Row] /\ type \in [D -> ChangeTypes] /\ D \in SUBSET OrgNodes
  <2>1. \A n \in D : new[n] \in Row
    BY <1>4, <1>5
  <2>2. new = [n \in D |-> new[n]]
    OBVIOUS
  <2>3. new \in [D -> Row]
    <3> HIDE DEF new, D
    <3> QED
      BY <2>1, <2>2
  <2>4. type \in [D -> ChangeTypes]
    BY DEF ChangeTypes
  <2> QED
    BY <1>2, <2>3, <2>4
<1> HIDE DEF new, type
<1>7. Request(D, new, y, type, FALSE)
  BY <1>4, <1>5, <1>6 DEF Request
<1>8. ASSUME forward, latest <= y
      PROVE  Upheld(row')
  <2>1. \A n \in OrgNodes : row'[n] = IF n \in D THEN new[n] ELSE row[n]
    BY <1>1, <1>6 DEF Commit
  <2>2. OrgTypes /\ Upheld(row)
    BY <1>8 DEF OrgInv, ForwardInv
  <2>3. \A h \in Heads : h # s => h \in OrgNodes /\ row'[h] = row[h]
    BY <1>3, <2>1, KindsApart
  <2>4. ASSUME NEW n \in Departments \cup Offices,
               row'[n] # NULL, row'[n].abolished = NULL, row'[n].up # NULL
        PROVE  row'[row'[n].up] # NULL /\ row'[row'[n].up].abolished = NULL
    <3>1. n \in OrgNodes /\ n # s
      BY <1>2, KindsApart
    <3>2. CASE n \in moved
      <4>1. row'[n].up = Uncategorized
        BY <1>5, <2>1, <3>1, <3>2
      <4> QED
        BY <1>1, <2>2, <2>3, <4>1, KindsApart DEF Upheld
    <3>3. CASE n \notin moved
      <4>1. row'[n] = row[n]
        BY <2>1, <3>1, <3>3
      <4>2. n \in Alive /\ Exists(n, y) /\ Resolved(n, y) = row[n]
        BY <1>8, <2>4, <3>1, <4>1, ForwardTree DEF Alive, Kept
      <4>3. row[n].up # s
        BY <3>3, <4>2 DEF ChildrenAt
      <4>4. row[n].up \in Heads
        BY <2>2, <2>4, <4>1, <4>2, UpsAreHeads DEF Alive
      <4> QED
        BY <2>2, <2>3, <2>4, <4>1, <4>3, <4>4 DEF Upheld
    <3> QED
      BY <3>2, <3>3
  <2> QED
    BY <1>1, <2>2, <2>3, <2>4, KindsApart DEF Upheld
<1> QED
  BY <1>1, <1>7, <1>8, CommitHeaded

\* A rollback ends the forward order; it puts a row back that the node had.
LEMMA RollbackStep ==
  ASSUME OrgInv, NEW e \in log, Rollback(e)
  PROVE  OrgInv' /\ PastStays
<1> DEFINE n == e.node
           put == [e.before EXCEPT !.from = row[n].from]
           new == [m \in {n} |-> put]
           type == [m \in {n} |-> "rollback"]
<1>1. Commit(new, e.year, type, TRUE)
  BY DEF Rollback
<1>2. n \in OrgNodes /\ row[n] # NULL /\ row[n] \in Row /\ e.year \in Years /\ e.before \in RowOf(n)
  BY DEF OrgInv, OrgTypes, Kept, RowOf
<1>3. put \in Row /\ put.up = e.before.up
  BY <1>2 DEF RowOf, Row
<1>4. put \in RowOf(n)
  <2> HIDE DEF put
  <2> QED
    BY <1>2, <1>3 DEF RowOf
<1>5. new \in [{n} -> Row] /\ new[n] = put /\ type \in [{n} -> ChangeTypes]
  <2> HIDE DEF put
  <2> QED
    BY <1>3 DEF ChangeTypes
<1> HIDE DEF new, type, put
<1>6. Request({n}, new, e.year, type, TRUE)
  BY <1>2, <1>4, <1>5 DEF Request
<1> QED
  BY <1>1, <1>6, CommitHeaded

LEMMA InitOrg == OrgInit => OrgInv
<1> SUFFICES ASSUME OrgInit PROVE OrgInv
  OBVIOUS
<1>1. PICK s \in Series \ {Uncategorized}, g \in Groups, name \in Names :
        \E seeded \in {{}, {s, g} \cup Departments \cup Offices} :
          row = [n \in OrgNodes |->
                  IF n = Uncategorized THEN SeedRow("uncategorized", NULL)
                  ELSE IF n \in seeded THEN SeedRow(name, IF n \in Departments THEN s
                                                          ELSE IF n \in Offices THEN g ELSE NULL)
                  ELSE NULL]
  BY DEF OrgInit
<1>2. PICK seeded \in {{}, {s, g} \cup Departments \cup Offices} :
        row = [n \in OrgNodes |->
                IF n = Uncategorized THEN SeedRow("uncategorized", NULL)
                ELSE IF n \in seeded THEN SeedRow(name, IF n \in Departments THEN s
                                                        ELSE IF n \in Offices THEN g ELSE NULL)
                ELSE NULL]
  BY <1>1
<1>3. /\ versions = [n \in OrgNodes |-> {}] /\ log = {} /\ writes = 0 /\ latest = MinYear /\ forward = TRUE
      /\ MinYear \in Years
  BY DEF OrgInit, Years
<1>4. \A m \in Names \cup {"uncategorized"}, up \in Heads \cup {NULL} :
        /\ SeedRow(m, up) \in Row /\ SeedRow(m, up).up = up
        /\ SeedRow(m, up).from = MinYear /\ SeedRow(m, up).abolished = NULL
  BY <1>3 DEF SeedRow, NewRow, Row, YearOrNull
<1>5. ASSUME NEW n \in OrgNodes
      PROVE  /\ row[n] \in Row \cup {NULL}
             /\ row[n] # NULL => /\ row[n] \in RowOf(n) /\ row[n].from = MinYear /\ row[n].abolished = NULL
                                 /\ row[n].up # NULL => row[n].up \in {s, g} /\ seeded # {}
  <2>1. CASE n = Uncategorized
    BY <1>2, <1>4, <2>1, KindsApart DEF RowOf
  <2>2. CASE n # Uncategorized /\ n \in seeded
    <3> DEFINE up == IF n \in Departments THEN s ELSE IF n \in Offices THEN g ELSE NULL
    <3>1. row[n] = SeedRow(name, up) /\ up \in Heads \cup {NULL}
      BY <1>2, <2>2, KindsApart
    <3>2. SeedRow(name, up) \in RowOf(n)
      BY <1>4, <3>1 DEF RowOf
    <3> QED
      BY <1>4, <2>2, <3>1, <3>2
  <2>3. CASE n # Uncategorized /\ n \notin seeded
    BY <1>2, <2>3
  <2> QED
    BY <2>1, <2>2, <2>3
<1>6. \A r : Told(r, {})
  BY FS_EmptySet DEF Told, OpenRows
<1>7. OrgTypes
  BY <1>2, <1>3, <1>5, <1>6 DEF OrgTypes, Kept
<1>8. Upheld(row)
  <2>1. row[Uncategorized] # NULL /\ row[Uncategorized].abolished = NULL
    BY <1>2, <1>4, KindsApart
  <2>2. seeded # {} => row[s] # NULL /\ row[g] # NULL /\ row[s].abolished = NULL /\ row[g].abolished = NULL
    BY <1>2, <1>4, KindsApart
  <2> QED
    BY <1>5, <2>1, <2>2, KindsApart DEF Upheld
<1>9. NothingLater
  BY <1>3, <1>5 DEF NothingLater, Ahead, Kept, OpenRows, Years
<1>10. LiveTree
  BY <1>7, <1>9, LatestTree
<1>11. Headed(row, versions)
  <2> SUFFICES ASSUME NEW n \in Departments \cup Offices, NEW y \in Years, ExistsIn(row, n, y),
                      Shows(row[n], versions[n], y).up # NULL
               PROVE  ExistsIn(row, Shows(row[n], versions[n], y).up, y)
    BY DEF Headed
  <2>1. n \in OrgNodes /\ latest <= y
    BY <1>3, KindsApart DEF Years
  <2>2. n \in Alive /\ Shows(row[n], versions[n], y) = row[n]
    BY <1>10, <2>1 DEF LiveTree
  <2>3. row[n].up \in Alive /\ row[n].up \in OrgNodes
    <3>1. row[n].up \in {s, g}
      BY <1>5, <2>1, <2>2 DEF Alive, Kept
    <3> QED
      BY <1>8, <2>2, <3>1, KindsApart DEF Upheld, Alive, Kept
  <2> QED
    BY <1>10, <2>1, <2>2, <2>3 DEF LiveTree
<1> QED
  BY <1>7, <1>8, <1>9, <1>11 DEF OrgInv, ForwardInv

-----------------------------------------------------------------------------
(* The organisation                                                        *)

LEMMA OrgStep ==
  ASSUME OrgInv, AcademicNext \/ OfficeNext
  PROVE  OrgInv' /\ PastStays
<1>1. CASE AcademicNext
  <2>1. ASSUME NEW D \in (SUBSET Departments) \ {{}}, NEW to \in [D -> Series], NEW y \in Years, Reorder(to, y)
        PROVE  OrgInv' /\ PastStays
    BY <2>1, ReorderStep
  <2> QED
    BY <1>1, <2>1, CreateSeriesStep, UpdateSeriesStep, CreateDepartmentStep, UpdateDepartmentStep,
       AbolishSeriesStep, AbolishDepartmentStep, RollbackStep DEF AcademicNext
<1>2. CASE OfficeNext
  BY <1>2, CreateOfficeStep, UpdateOfficeStep, AbolishOfficeStep, RollbackStep DEF OfficeNext
<1> QED
  BY <1>1, <1>2

LEMMA OrgInvShows ==
  ASSUME OrgInv
  PROVE  OrgTypeOK /\ ChildHasHead /\ LastYearIsLive
<1>1. OrgTypeOK
  <2>1. row \in [OrgNodes -> Row \cup {NULL}]
    BY DEF OrgInv, OrgTypes
  <2>2. ASSUME NEW n \in OrgNodes, NEW v \in versions[n]
        PROVE  v.payload \in Row /\ v.from \in Years /\ v.to \in YearOrNull /\ (IsOpen(v) \/ v.from <= v.to)
    <3>1. Told(row[n], versions[n])
      BY DEF OrgInv, OrgTypes
    <3> QED
      BY <3>1 DEF Told, Version
  <2>3. \A e \in log : e.node \in Kept /\ e.year \in Years /\ e.before \in Row
    BY DEF OrgInv, OrgTypes, RowOf
  <2> QED
    BY <2>1, <2>2, <2>3 DEF OrgTypeOK
<1>2. ChildHasHead
  <2> SUFFICES ASSUME forward, NEW n \in Departments \cup Offices, NEW y \in Years, Exists(n, y),
                      n \in Departments \/ Resolved(n, y).up # NULL
               PROVE  Exists(Resolved(n, y).up, y)
    BY DEF ChildHasHead
  <2>1. n \in Kept /\ Resolved(n, y) \in RowOf(n)
    BY RowAt, ResolvedRow DEF OrgInv, Kept
  <2>2. Resolved(n, y).up # NULL
    BY <2>1, KindsApart DEF RowOf
  <2>3. Resolved(n, y) = Shows(row[n], versions[n], y) /\ ExistsIn(row, n, y)
    BY ResolvedShows, ExistsIs
  <2>4. ExistsIn(row, Resolved(n, y).up, y)
    BY <2>2, <2>3 DEF OrgInv, ForwardInv, Headed
  <2> QED
    BY <2>4, ExistsIs
<1>3. LastYearIsLive
  BY LastYearShows, ResolvedShows DEF OrgInv, OrgTypes, LastYearIsLive
<1> QED
  BY <1>1, <1>2, <1>3

LEMMA MCInitOrg == MCInit => OrgInv /\ EventsInv
BY InitOrg, InitEvents DEF MCInit

LEMMA MCStepOrg ==
  OrgInv /\ EventsInv /\ [MCNext]_<<scene, ovars, evars>>
    => OrgInv' /\ EventsInv' /\ (UNCHANGED ovars \/ PastStays)
<1> SUFFICES ASSUME OrgInv, EventsInv, [MCNext]_<<scene, ovars, evars>>
             PROVE  OrgInv' /\ EventsInv' /\ (UNCHANGED ovars \/ PastStays)
  OBVIOUS
<1>1. [EventsNext]_evars /\ (UNCHANGED ovars \/ AcademicNext \/ OfficeNext)
  BY DEF MCNext
<1>2. ASSUME UNCHANGED ovars PROVE OrgInv'
  <2>1. UNCHANGED <<row, versions, log, writes, latest, forward>>
    BY <1>2 DEF ovars
  <2>2. OrgTypes'
    BY <2>1 DEF OrgInv, OrgTypes, Kept
  <2>3. forward => ForwardInv'
    BY <2>1 DEF OrgInv, ForwardInv, NothingLater, Kept
  <2> QED
    BY <2>1, <2>2, <2>3 DEF OrgInv
<1> QED
  BY <1>1, <1>2, EventsStep, OrgStep

\* Every variable of both components stays in its set, and in the tree of every year
\* each department and each office of a group is under a head that exists in that
\* year, for administrators who work forward through the years.
THEOREM TreesStaySound == MCSpec => []SoundTrees
<1>1. EventsInv => EventsTypeOK
  BY DEF EventsInv, EventsTypeOK, Rows, Note
<1>2. OrgInv /\ EventsInv => SoundTrees
  BY <1>1, OrgInvShows DEF SoundTrees
<1> QED
  BY <1>2, MCInitOrg, MCStepOrg, PTL DEF MCSpec

\* The version rows tell every year: whatever was edited, backdated or rolled back,
\* the last year shows the live row; and an edit leaves the trees of the years before
\* it as they were, for administrators who work forward.
THEOREM YearsAreTold == MCSpec => VersionsTellYears
<1>1. OrgInv => LastYearIsLive
  BY OrgInvShows
<1> DEFINE Past ==
      forward' => \A n \in OrgNodes, y \in Years :
        y < latest' /\ n \in Kept => Exists(n, y)' = Exists(n, y)
                                     /\ (Exists(n, y) => Resolved(n, y)' = Resolved(n, y))
<1>2. PastStays => Past
  BY DEF PastStays, Kept, Exists
<1> HIDE DEF Past
<1>3. OrgInv /\ EventsInv /\ [MCNext]_<<scene, ovars, evars>> => [Past]_ovars
  BY <1>2, MCStepOrg
<1>4. MCSpec => [](OrgInv /\ EventsInv)
  BY MCInitOrg, MCStepOrg, PTL DEF MCSpec
<1>5. MCSpec => [][Past]_ovars
  BY <1>3, <1>4, PTL DEF MCSpec
<1> QED
  BY <1>1, <1>4, <1>5, PTL DEF VersionsTellYears, OrgPastKept, Past

=============================================================================
