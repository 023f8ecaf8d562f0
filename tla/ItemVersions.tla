---------------------------- MODULE ItemVersions ----------------------------
(***************************************************************************)
(* The version rows of ONE lineage (ir_sp_item_version), and the code that *)
(* reads and writes them, shared by every kind of the strategic plan and,  *)
(* over ir_org_item_version, by the organisation.                          *)
(*                                                                         *)
(* A row holds a payload for the school years from .. to; to = NULL is an  *)
(* open row, in force "until further notice".  The table is a set of rows. *)
(* ORDER BY effectiveFrom DESC, versionId DESC is the relation Before;     *)
(* "the first row of the result" is the row that no other is Before, given *)
(* as a set with at most one element so that no row at all is the empty    *)
(* set and not an undefined value.                                         *)
(*                                                                         *)
(* A definition called Slip_ is the next one with a mistake in it; no      *)
(* specification uses it.  Putting it in the place of that definition must *)
(* make some run fail.                                                     *)
(***************************************************************************)
EXTENDS Absent, Integers

CONSTANTS MinYear,   \* SP_MIN_YEAR, ORG_MIN_YEAR: the first school year
          MaxYear    \* the last one

ASSUME YearsAssumption == /\ MinYear \in Nat
                          /\ MaxYear \in Nat
                          /\ MinYear <= MaxYear
\* NULL is an open end, or a live row's abolishedFrom.
ASSUME NullAssumption == NULL \notin Int

Years == MinYear..MaxYear
YearOrNull == Years \cup {NULL}

ChangeTypes == {"create", "update", "abolish", "rollback"}

Version(Payload) ==
  [id: Nat, from: Years, to: YearOrNull, type: ChangeTypes, payload: Payload]

IsOpen(v) == v.to = NULL

\* activeAt(): the interval the live row itself claims.
ActiveAt(from, abolished, y) == from <= y /\ (abolished = NULL \/ y < abolished)

\* versionCovers()
Covers(v, y) == v.from <= y /\ (IsOpen(v) \/ y <= v.to)

\* activeInYear(): the rows decide; the live interval only when there is no row.
ActiveInYear(vs, y, fallbackFrom, fallbackAbolished) ==
  IF vs = {} THEN ActiveAt(fallbackFrom, fallbackAbolished, y)
             ELSE \E v \in vs : Covers(v, y)

Slip_BeforeAscending(v, w) == v.from < w.from \/ (v.from = w.from /\ v.id < w.id)

\* ORDER BY effectiveFrom DESC, versionId DESC
Before(v, w) == v.from > w.from \/ (v.from = w.from /\ v.id > w.id)

First(rows) == {v \in rows : \A w \in rows : ~Before(w, v)}

\* overlayPayload(): the payload of the first covering row, if there is one.
OverlayPayload(vs, y) ==
  {v.payload : v \in First({w \in vs : Covers(w, y)})}

-----------------------------------------------------------------------------
(* writeVersion(), cut at the place where it branches.                     *)

OpenRows(vs) == {v \in vs : IsOpen(v)}

Slip_CloseCurrentKeepsEmptyRow(vs, y) ==
  LET current == First(OpenRows(vs))
  IN (vs \ current) \cup {[v EXCEPT !.to = y - 1] : v \in current}

Slip_CloseCurrentTakesAnyRow(vs, y) ==
  LET current == First(vs)
  IN (vs \ current) \cup {[v EXCEPT !.to = y - 1] : v \in {w \in current : w.from <= y - 1}}

Slip_CloseCurrentAYearEarly(vs, y) ==
  LET current == First(OpenRows(vs))
  IN (vs \ current) \cup {[v EXCEPT !.to = y - 2] : v \in {w \in current : w.from <= y - 1}}

\* An open row is closed the year before, or removed when nothing would be left.
CloseCurrent(vs, y) ==
  LET current == First(OpenRows(vs))
  IN (vs \ current) \cup {[v EXCEPT !.to = y - 1] : v \in {w \in current : w.from <= y - 1}}

\* A lineage with no open row gets the years up to y as one historic row.
Backfill(vs, id, y, type, previous) ==
  IF OpenRows(vs) = {} /\ type \in {"update", "abolish"} /\ y > MinYear
  THEN {[id |-> id, from |-> MinYear, to |-> y - 1, type |-> "create", payload |-> previous]}
  ELSE {}

OpenFrom(id, y, type, payload) ==
  IF type = "abolish" THEN {}
  ELSE {[id |-> id, from |-> y, to |-> NULL, type |-> type, payload |-> payload]}

Slip_WriteVersionBackfillsNew(vs, id, y, type, payload, previous) ==
  CloseCurrent(vs, y) \cup Backfill(vs, id, y, type, payload)
                      \cup OpenFrom(id, y, type, payload)

\* id stands for the versionId of both inserts; their years differ, so the
\* order among the rows is the one the generated ids give.
WriteVersion(vs, id, y, type, payload, previous) ==
  CloseCurrent(vs, y) \cup Backfill(vs, id, y, type, previous)
                      \cup OpenFrom(id, y, type, payload)
=============================================================================
