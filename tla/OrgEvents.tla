------------------------------ MODULE OrgEvents ------------------------------
(***************************************************************************)
(* The annual change notes of one school year (ir_annual_event, category   *)
(* YSU).  After each change of the organisation OrgAnnualSyncService       *)
(* rebuilds the generated lines of the year's note from the change log;    *)
(* administrators write notes of their own, also into the generated row.   *)
(* Requests interleave between reading the log, reading the rows and       *)
(* writing the row.                                                        *)
(*                                                                         *)
(* A content is the set of the administrators' remarks in it, those of     *)
(* them on a line labelled with the department prefix, and the facts its   *)
(* generated lines tell.                                                   *)
(***************************************************************************)
EXTENDS Absent, Naturals, FiniteSets

CONSTANTS
  DeptFacts, OfficeFacts,  \* changes of series and departments; of offices
  Remarks,                 \* what administrators add
  Syncs,                   \* requests that change the organisation
  MaxRows                  \* bound: rows of the year

ASSUME EventsAssumption == MaxRows \in Nat /\ NULL \notin Syncs

Facts == DeptFacts \cup OfficeFacts
Content == [free : SUBSET Remarks, labelled : SUBSET Remarks, facts : SUBSET Facts]
NoContent == [free |-> {}, labelled |-> {}, facts |-> {}]

VARIABLES
  logged,   \* facts of the year in ir_org_change_log
  events,   \* its rows, a set of Note
  nextRow,  \* the sequence of event_id
  sync,     \* per request: where its annualSync.sync stands
  due,      \* history: log entries, or administrators' edits, since the last quiet sync
  alone     \* history: the sync that no other request or edit has disturbed, or NULL

evars == <<logged, events, nextRow, sync, due, alone>>

\* A row; queries give the rows in the order of their ids.
Note == [id : 1..MaxRows, content : Content, auto : SUBSET Facts]
Oldest(rows) == CHOOSE r \in rows : \A s \in rows : r.id <= s.id
Without(rows, ids) == {r \in rows : r.id \notin ids}

IdleSync == [pc |-> "idle"]

\* autoContent: the text generated last; generated facts make one text.
IsAuto(row) == row.content = [NoContent EXCEPT !.facts = row.auto]

-----------------------------------------------------------------------------
(* mergeOrgAnnualContent                                                   *)

\* The generated lines are replaced.  Remarks stay, but one that stands on a line
\* with the department prefix is taken for a generated line; and when the new text
\* has no such line the remarks get the prefix.
Slip_Merge(old, auto, generated) ==
  IF old = NoContent \/ old = [NoContent EXCEPT !.facts = auto] THEN [NoContent EXCEPT !.facts = generated] ELSE old

Merge(old, auto, generated) ==
  IF old = NoContent \/ old = [NoContent EXCEPT !.facts = auto]
  THEN [NoContent EXCEPT !.facts = generated]
  ELSE IF generated # {} /\ generated \cap DeptFacts = {}
  THEN [free |-> {}, labelled |-> old.free, facts |-> generated]
  ELSE [free |-> old.free, labelled |-> {}, facts |-> generated]

-----------------------------------------------------------------------------
(* A request that changes the organisation                                 *)

\* recordChange; rollbacks add an entry that is no fact.
RecordChange(q, new) ==
  /\ sync[q] = IdleSync
  /\ logged' = logged \cup new
  /\ sync' = [sync EXCEPT ![q] = [pc |-> "log"]]
  /\ due' = TRUE
  /\ alone' = NULL
  /\ UNCHANGED <<events, nextRow>>

\* listYearFacts
ReadLog(q) ==
  /\ sync[q].pc = "log"
  /\ sync' = [sync EXCEPT ![q] = [pc |-> "rows", generated |-> logged]]
  /\ alone' = IF \A p \in Syncs \ {q} : sync[p] = IdleSync THEN q ELSE NULL
  /\ UNCHANGED <<logged, events, nextRow, due>>

\* upsertOrgEvent reads the rows of the year.
ReadRows(q) ==
  /\ sync[q].pc = "rows"
  /\ sync' = [sync EXCEPT ![q] = [pc |-> "write", generated |-> @.generated, found |-> events]]
  /\ UNCHANGED <<logged, events, nextRow, due, alone>>

\* Rows besides the first go when they are nothing but generated text.
Redundant(found) == {r.id : r \in {s \in found \ {Oldest(found)} : s.auto # {} /\ IsAuto(s)}}

\* upsertOrgEvent writes the first row it read, or makes one.  save() of an entity whose
\* row is gone inserts it again.
WriteRow(q) ==
  LET found == sync[q].found
      generated == sync[q].generated
      first == Oldest(found)
      merged == [first EXCEPT !.content = Merge(@, first.auto, generated), !.auto = generated]
      saved == IF merged.content = NoContent THEN {} ELSE {merged}
  IN /\ sync[q].pc = "write"
     /\ IF found = {} /\ generated # {}
        THEN /\ nextRow <= MaxRows
             /\ events' = events \cup {[id |-> nextRow, content |-> [NoContent EXCEPT !.facts = generated],
                                       auto |-> generated]}
             /\ nextRow' = nextRow + 1
        ELSE /\ events' = IF found = {} THEN events
                          ELSE Without(Without(events, {first.id}) \cup saved, Redundant(found))
             /\ UNCHANGED nextRow
     /\ due' = (due /\ alone # q)
     /\ sync' = [sync EXCEPT ![q] = IdleSync]
     /\ alone' = NULL
     /\ UNCHANGED logged

-----------------------------------------------------------------------------
(* AnnualEventsManager                                                     *)

\* What an administrator does to the rows while no sync is quiet any more.
ByHand(rows) ==
  /\ events' = rows
  /\ due' = TRUE /\ alone' = NULL
  /\ UNCHANGED <<logged, sync>>

CreateEvent(remarks) ==
  /\ remarks # {} /\ nextRow <= MaxRows
  /\ ByHand(events \cup {[id |-> nextRow, content |-> [NoContent EXCEPT !.free = remarks], auto |-> {}]})
  /\ nextRow' = nextRow + 1

\* The content may be rewritten: remarks added or taken out, generated lines removed.
UpdateEvent(r, content) ==
  /\ r \in events
  /\ content # NoContent
  /\ content.facts \subseteq r.content.facts
  /\ content.labelled \subseteq r.content.labelled
  /\ ByHand((events \ {r}) \cup {[r EXCEPT !.content = content]})
  /\ UNCHANGED nextRow

RemoveEvent(r) ==
  /\ r \in events
  /\ ByHand(events \ {r})
  /\ UNCHANGED nextRow

-----------------------------------------------------------------------------

\* After a start the hook has gone through the years that have log entries.
EventsInit ==
  /\ logged = {} /\ events = {} /\ nextRow = 1
  /\ sync = [q \in Syncs |-> IdleSync]
  /\ due = FALSE /\ alone = NULL

EventsNext ==
  \/ \E q \in Syncs : (\E f \in Facts : RecordChange(q, {f})) \/ RecordChange(q, {})
  \/ \E q \in Syncs : ReadLog(q) \/ ReadRows(q) \/ WriteRow(q)
  \/ \E remarks \in SUBSET Remarks : CreateEvent(remarks)
  \/ \E r \in events : RemoveEvent(r) \/ \E content \in Content : UpdateEvent(r, content)

-----------------------------------------------------------------------------

EventsTypeOK ==
  /\ logged \subseteq Facts
  /\ nextRow \in 1..(MaxRows + 1)
  /\ \A r \in events : r \in Note /\ r.id \in 1..(nextRow - 1) /\ r.content # NoContent
  /\ \A r, s \in events : r.id = s.id => r = s

\* A sync that nothing disturbs makes good whatever overlapping syncs and edits by
\* hand left behind: the first row of the year tells the facts of the log, no more
\* and no less, and no other row that is only generated text tells them again.
SyncTellsLog ==
  ~due =>
    /\ logged # {} => events # {} /\ Oldest(events).content.facts = logged
    /\ \A r \in events : r = Oldest(events) \/ r.auto = {} \/ ~IsAuto(r)

\* "관리자가 적은 다른 문구는 남긴다" (annual-events.service.ts:84): a sync takes no
\* remark out of the rows it read.
RemarksKept ==
  [][\A q \in Syncs : alone = q /\ sync[q].pc = "write" /\ sync'[q] = IdleSync =>
       \A x \in Remarks :
         (\E r \in events : x \in r.content.free \cup r.content.labelled) =>
         (\E r \in events' : x \in r.content.free \cup r.content.labelled)]_evars
=============================================================================
